---- MODULE Spec2Model ----
(***************************************************************************)
(* ImageSplitterQt: the guide-line controller (src/core/controller.py),    *)
(* its command stack (src/core/commands.py), the geometry helpers          *)
(* (src/core/utils.py), the segment exporter (src/core/exporter.py) and    *)
(* the gestures of the main window that act on a line (src/ui).            *)
(*                                                                         *)
(* Numbers.  GuideLine.y is a Python float.  The model holds a y as an     *)
(* integer count of 1/Scale pixel, so 0.05, 0.1 and 0.5 pixel are exact.   *)
(* The raw inputs are chosen so that no two reachable y differ by exactly  *)
(* 0.1 pixel, the one distance at which binary floating point and exact    *)
(* arithmetic can disagree about "abs(a - b) < 0.1".                       *)
(*                                                                         *)
(* Text.  A string the code computes on (suffix, extension, file name,     *)
(* path) is a sequence of one-character strings.                           *)
(***************************************************************************)
EXTENDS Integers, Sequences, FiniteSets, TLC

VARIABLES
    image,        \* GuideController._image/_image_path: <<>> or <<[width, height, suffix]>>
    lines,        \* GuideController._lines: id -> GuideLine
    selected_id,  \* GuideController._selected_id
    snap_mode,    \* GuideController.snap_mode
    grid_size,    \* GuideController.grid_size
    stack,        \* CommandStack._stack
    index,        \* CommandStack._index
    next_id,      \* number of uuid4() values drawn so far
    next_cmd,     \* number of command objects constructed so far
    lines_changed,       \* payload of the last lines_changed signal
    selection_changed,   \* payload of the last selection_changed signal
    undo_state_changed,  \* payload of the last undo_state_changed signal
    call,         \* arguments of a direct call of export_image_segments
    last,         \* the operation that ran last, and what it returned
    base_lines,   \* history: the guide set when the current CommandStack was created
    before,       \* history: before[i] is the guide set just before stack[i] was pushed
    discarded,    \* history: the commands push_and_execute has dropped
    reset_id,     \* history: next_id when the current CommandStack was created
    reset_cmd,    \* history: next_cmd when the current CommandStack was created
    now,          \* the wall clock datetime.now() reads, in half seconds
    exported      \* history: the directory and the files of each call export has made
                  \* of export_image_segments

vars == <<image, lines, selected_id, snap_mode, grid_size, stack, index,
          next_id, next_cmd, lines_changed, selection_changed, undo_state_changed,
          call, last, base_lines, before, discarded, reset_id, reset_cmd,
          now, exported>>

----------------------------------------------------------------------------
(* Bounds and input sets *)

MaxIds == 2
MaxCmds == 3
MaxLines == 3

Scale == 20
None == 0

Px(n) == n * Scale

\* raw y passed to add_line / move_line: -1, 0.05, 1 and 2.5 pixel
RawYs == {-20, 1, 20, 50}
\* the images load_image can decode
Images == {[width |-> 4, height |-> 2, suffix |-> <<".", "P", "N", "G">>]}
\* where a drag ends and what is typed into a y cell: 0.05 and 2.5 pixel
GestureYs == {1, 50}
\* arguments of set_grid_size
GridInputs == {-3, 0}
SnapModes == {"off", "pixel", "grid"}
Ids == 1..MaxIds

----------------------------------------------------------------------------
(* src/core/utils.py *)

Abs(a) == IF a < 0 THEN -a ELSE a
Max(a, b) == IF a >= b THEN a ELSE b
Min(a, b) == IF a <= b THEN a ELSE b

\* Python's round(n / d) for d > 0: to the nearest integer, ties to even
PyRound(n, d) ==
    LET q == n \div d
        r == n % d
    IN  IF 2 * r < d THEN q
        ELSE IF 2 * r > d THEN q + 1
        ELSE IF q % 2 = 0 THEN q ELSE q + 1

clamp(value, minimum, maximum) == Max(minimum, Min(value, maximum))

\* faulty variant: the rounded quotient is not multiplied by the grid size
apply_snap_quotient(y, mode, grid) ==
    IF mode = "off" THEN y
    ELSE IF mode = "pixel" THEN Px(PyRound(y, Scale))
    ELSE IF mode = "grid" /\ grid > 0 THEN Px(PyRound(y, Scale * grid))
    ELSE y
apply_snap(y, mode, grid) ==
    IF mode = "off" THEN y
    ELSE IF mode = "pixel" THEN Px(PyRound(y, Scale))
    ELSE IF mode = "grid" /\ grid > 0 THEN Px(PyRound(y, Scale * grid) * grid)
    ELSE y

----------------------------------------------------------------------------
(* src/core/models.py *)

\* kind is "horizontal" in every GuideLine the program makes, and is left out
GuideLine(id, y, locked) == [id |-> id, y |-> y, locked |-> locked]

ExportResult(written, skipped, errors) ==
    [written |-> written, skipped |-> skipped, errors |-> errors]

----------------------------------------------------------------------------
(* src/core/controller.py: queries and the mutation helpers the commands   *)
(* call.  g is the part of the controller they touch: lines, selected_id,  *)
(* the last payload of each signal that carries one (lines_changed,        *)
(* selection_changed, undo_state_changed), and emitted, the names of the   *)
(* signals emitted so far by the running operation, in order.              *)

\* signal.emit(payload)
Emit(g, signal, payload) ==
    IF signal \in DOMAIN g
    THEN [g EXCEPT ![signal] = payload, !.emitted = Append(@, signal)]
    ELSE [g EXCEPT !.emitted = Append(@, signal)]

Put(ls, line) ==
    [i \in DOMAIN ls \cup {line.id} |-> IF i = line.id THEN line ELSE ls[i]]

Drop(ls, id) == [i \in DOMAIN ls \ {id} |-> ls[i]]

Values(ls) == {ls[i] : i \in DOMAIN ls}

Before(a, b) == a.y < b.y \/ (a.y = b.y /\ a.id <= b.id)

RECURSIVE SortedOf(_)
SortedOf(S) ==
    IF S = {} THEN <<>>
    ELSE LET m == CHOOSE a \in S : \A b \in S : Before(a, b)
         IN  <<m>> \o SortedOf(S \ {m})

sorted_lines(ls) == SortedOf(Values(ls))

\* abs(a - b) < 0.1
IsClose(a, b) == Abs(a - b) * 10 < Scale

\* faulty variant: compares for equality, without the 0.1 tolerance
_is_duplicate_y_exact(ls, y, exclude_id) ==
    \E i \in DOMAIN ls :
        /\ ~(exclude_id # None /\ ls[i].id = exclude_id)
        /\ ls[i].y = y
_is_duplicate_y(ls, y, exclude_id) ==
    \E i \in DOMAIN ls :
        /\ ~(exclude_id # None /\ ls[i].id = exclude_id)
        /\ IsClose(ls[i].y, y)

\* faulty variant: the snapped value is returned without clamp
_normalize_y_unclamped(img, y, mode, grid) ==
    IF img = <<>> THEN y
    ELSE apply_snap(y, mode, grid)
_normalize_y(img, y, mode, grid) ==
    IF img = <<>> THEN y
    ELSE clamp(apply_snap(y, mode, grid), 0, Px(img[1].height))

\* self.lines_changed.emit(self.sorted_lines())
EmitLines(g) == Emit(g, "lines_changed", sorted_lines(g.lines))

_add_line(g, line) == EmitLines([g EXCEPT !.lines = Put(g.lines, line)])

\* faulty variant: removes the line and leaves the selection alone
_remove_line_keep_selection(g, line_id) ==
    EmitLines([g EXCEPT !.lines = Drop(g.lines, line_id)])
_remove_line(g, line_id) ==
    LET removed == [g EXCEPT !.lines = Drop(g.lines, line_id)]
    IN  EmitLines(IF g.selected_id = line_id
                  THEN Emit([removed EXCEPT !.selected_id = None],
                            "selection_changed", None)
                  ELSE removed)

FromList(ls) == [i \in {ls[k].id : k \in DOMAIN ls} |->
                    LET k == CHOOSE j \in DOMAIN ls :
                                 /\ ls[j].id = i
                                 /\ \A m \in DOMAIN ls : ls[m].id = i => m <= j
                    IN  ls[k]]

_set_all_lines(g, ls) ==
    EmitLines([g EXCEPT !.lines = FromList(ls), !.selected_id = None])

\* faulty variant: the line is made anew from its id and y, so unlocked
_move_line_unlocks(g, line_id, new_y) ==
    IF line_id \notin DOMAIN g.lines THEN g
    ELSE EmitLines([g EXCEPT !.lines[line_id] = [id |-> line_id, y |-> new_y,
                                                  locked |-> FALSE]])
_move_line(g, line_id, new_y) ==
    IF line_id \notin DOMAIN g.lines THEN g
    ELSE EmitLines([g EXCEPT !.lines[line_id].y = new_y])

\* faulty variant: the line is replaced and lines_changed is not emitted
_set_locked_silent(g, line_id, locked) ==
    IF line_id \notin DOMAIN g.lines THEN g
    ELSE [g EXCEPT !.lines[line_id].locked = locked]
_set_locked(g, line_id, locked) ==
    IF line_id \notin DOMAIN g.lines THEN g
    ELSE EmitLines([g EXCEPT !.lines[line_id].locked = locked])

\* self.undo_state_changed.emit(self._commands.can_undo, self._commands.can_redo);
\* the two properties are passed in, CommandStack being defined further down
\* faulty variant: nothing is published
_emit_undo_state_never(g, canundo, canredo) == g
_emit_undo_state(g, canundo, canredo) ==
    Emit(g, "undo_state_changed", <<canundo, canredo>>)

----------------------------------------------------------------------------
(* src/core/commands.py: the five commands.  Every command is a record of  *)
(* one shape; the fields a variant does not have hold NoLine / 0 / <<>>.   *)
(* serial stands for the identity of the Python object.                    *)

NoLine == GuideLine(None, 0, FALSE)

Command(kind, serial, line, line_id, old_y, new_y, locked, previous) ==
    [kind |-> kind, serial |-> serial, line |-> line, line_id |-> line_id,
     old_y |-> old_y, new_y |-> new_y, locked |-> locked, previous |-> previous]

AddLineCommand(serial, line) ==
    Command("add", serial, line, None, 0, 0, FALSE, <<>>)
DeleteLineCommand(serial, line) ==
    Command("delete", serial, line, None, 0, 0, FALSE, <<>>)
MoveLineCommand(serial, line_id, old_y, new_y) ==
    Command("move", serial, NoLine, line_id, old_y, new_y, FALSE, <<>>)
LockLineCommand(serial, line_id, locked) ==
    Command("lock", serial, NoLine, line_id, 0, 0, locked, <<>>)
ClearLinesCommand(serial, previous) ==
    Command("clear", serial, NoLine, None, 0, 0, FALSE, previous)

\* command.do()
do(cmd, g) ==
    CASE cmd.kind = "add"    -> _add_line(g, cmd.line)
      [] cmd.kind = "delete" -> _remove_line(g, cmd.line.id)
      [] cmd.kind = "move"   -> _move_line(g, cmd.line_id, cmd.new_y)
      [] cmd.kind = "lock"   -> _set_locked(g, cmd.line_id, cmd.locked)
      [] cmd.kind = "clear"  -> _set_all_lines(g, <<>>)

\* faulty variant of undo: MoveLineCommand.undo moves to new_y again
undo_move_keeps(cmd, g) ==
    CASE cmd.kind = "add"    -> _remove_line(g, cmd.line.id)
      [] cmd.kind = "delete" -> _add_line(g, cmd.line)
      [] cmd.kind = "move"   -> _move_line(g, cmd.line_id, cmd.new_y)
      [] cmd.kind = "lock"   -> _set_locked(g, cmd.line_id, ~cmd.locked)
      [] cmd.kind = "clear"  -> _set_all_lines(g, cmd.previous)
\* command.undo()
undo(cmd, g) ==
    CASE cmd.kind = "add"    -> _remove_line(g, cmd.line.id)
      [] cmd.kind = "delete" -> _add_line(g, cmd.line)
      [] cmd.kind = "move"   -> _move_line(g, cmd.line_id, cmd.old_y)
      [] cmd.kind = "lock"   -> _set_locked(g, cmd.line_id, ~cmd.locked)
      [] cmd.kind = "clear"  -> _set_all_lines(g, cmd.previous)

(* CommandStack.  cs is [stack, index]; index is the code's 0-based cursor, *)
(* so the command under the cursor is cs.stack[cs.index + 1].               *)

CommandStack == [stack |-> <<>>, index |-> -1]

can_undo(cs) == cs.index >= 0
can_redo(cs) == cs.index + 1 < Len(cs.stack)

\* faulty variant: the redoable commands stay
KeptAll(cs) == cs.stack
\* the part of the stack push_and_execute keeps
Kept(cs) ==
    IF cs.index + 1 < Len(cs.stack) THEN SubSeq(cs.stack, 1, cs.index + 1)
    ELSE cs.stack

\* each of the three returns [cs |-> the stack after, g |-> the guide state after]
push_and_execute(cs, cmd, g) ==
    [cs |-> [stack |-> Append(Kept(cs), cmd), index |-> cs.index + 1],
     g  |-> do(cmd, g)]

\* faulty variant: the command is undone and the cursor stays
stack_undo_keeps_cursor(cs, g) ==
    IF ~can_undo(cs) THEN [cs |-> cs, g |-> g]
    ELSE [cs |-> cs, g |-> undo(cs.stack[cs.index + 1], g)]
stack_undo(cs, g) ==
    IF ~can_undo(cs) THEN [cs |-> cs, g |-> g]
    ELSE [cs |-> [cs EXCEPT !.index = cs.index - 1],
          g  |-> undo(cs.stack[cs.index + 1], g)]

\* faulty variant: the cursor moves on without the guard
stack_redo_unguarded(cs, g) ==
    [cs |-> [cs EXCEPT !.index = cs.index + 1],
     g  |-> IF cs.index + 2 \in DOMAIN cs.stack THEN do(cs.stack[cs.index + 2], g) ELSE g]
stack_redo(cs, g) ==
    IF ~can_redo(cs) THEN [cs |-> cs, g |-> g]
    ELSE [cs |-> [cs EXCEPT !.index = cs.index + 1],
          g  |-> do(cs.stack[cs.index + 2], g)]

----------------------------------------------------------------------------
(* Text: str(n), f"{n:0{w}d}", str.lower, str.upper, str.lstrip(".")        *)

Digits == <<"0", "1", "2", "3", "4", "5", "6", "7", "8", "9">>
UpperChars == <<"A", "B", "C", "D", "E", "F", "G", "H", "I", "J", "K", "L", "M",
                "N", "O", "P", "Q", "R", "S", "T", "U", "V", "W", "X", "Y", "Z">>
LowerChars == <<"a", "b", "c", "d", "e", "f", "g", "h", "i", "j", "k", "l", "m",
                "n", "o", "p", "q", "r", "s", "t", "u", "v", "w", "x", "y", "z">>

RECURSIVE StrNat(_)
StrNat(n) == IF n < 10 THEN <<Digits[n + 1]>>
             ELSE StrNat(n \div 10) \o <<Digits[(n % 10) + 1]>>

Str(n) == IF n < 0 THEN <<"-">> \o StrNat(-n) ELSE StrNat(n)

RECURSIVE ZeroPad(_, _)
ZeroPad(s, width) == IF Len(s) >= width THEN s ELSE ZeroPad(<<"0">> \o s, width)

MapChar(c, from, to) ==
    IF \E i \in DOMAIN from : from[i] = c
    THEN to[CHOOSE i \in DOMAIN from : from[i] = c]
    ELSE c

Lower(s) == [i \in DOMAIN s |-> MapChar(s[i], UpperChars, LowerChars)]
Upper(s) == [i \in DOMAIN s |-> MapChar(s[i], LowerChars, UpperChars)]

RECURSIVE LStripDot(_)
LStripDot(s) == IF s # <<>> /\ Head(s) = "." THEN LStripDot(Tail(s)) ELSE s

----------------------------------------------------------------------------
(* src/core/exporter.py *)

PNG == <<"p", "n", "g">>
JPG == <<"j", "p", "g">>
JPEG == <<"j", "p", "e", "g">>

\* faulty variant: the suffix is not lowercased
_resolve_extension_as_is(export_format, original_suffix) ==
    IF export_format = "keep"
    THEN LET suffix == LStripDot(original_suffix)
         IN  IF suffix = <<>> THEN PNG ELSE suffix
    ELSE IF export_format = "png" THEN PNG
    ELSE IF export_format = "jpeg" THEN JPG
    ELSE PNG
_resolve_extension(export_format, original_suffix) ==
    IF export_format = "keep"
    THEN LET suffix == LStripDot(Lower(original_suffix))
         IN  IF suffix = <<>> THEN PNG ELSE suffix
    ELSE IF export_format = "png" THEN PNG
    ELSE IF export_format = "jpeg" THEN JPG
    ELSE PNG

_resolve_qt_format(export_format, original_suffix) ==
    IF export_format = "keep"
    THEN LET suffix == LStripDot(Lower(original_suffix))
         IN  IF suffix \in {JPG, JPEG} THEN Upper(JPEG)
             ELSE IF suffix = PNG THEN Upper(PNG)
             ELSE IF suffix # <<>> THEN Upper(suffix) ELSE Upper(PNG)
    ELSE IF export_format = "png" THEN Upper(PNG)
    ELSE IF export_format = "jpeg" THEN Upper(JPEG)
    ELSE Upper(PNG)

\* sorted(lines, key=lambda l: l.y): a stable sort of a sequence
RECURSIVE SortedByY(_)
SortedByY(ls) ==
    IF ls = <<>> THEN <<>>
    ELSE LET k == CHOOSE i \in DOMAIN ls :
                      /\ \A j \in DOMAIN ls : ls[i].y <= ls[j].y
                      /\ \A j \in 1..(i - 1) : ls[j].y > ls[i].y
         IN  <<ls[k]>> \o SortedByY(SubSeq(ls, 1, k - 1) \o SubSeq(ls, k + 1, Len(ls)))

\* faulty variant: the lines are taken in the order given
boundaries_unsorted(height, ls) ==
    <<0>> \o [i \in DOMAIN ls |-> PyRound(ls[i].y, Scale)] \o <<height>>
\* [0] + [int(round(line.y)) for line in sorted(lines)] + [height]
boundaries(height, ls) ==
    LET sorted == SortedByY(ls)
    IN  <<0>> \o [i \in DOMAIN sorted |-> PyRound(sorted[i].y, Scale)] \o <<height>>

\* faulty variant: clamps, and keeps equal neighbours
RECURSIVE clean_boundaries_keep_equal(_, _, _)
clean_boundaries_keep_equal(height, bs, clean) ==
    IF bs = <<>> THEN clean
    ELSE clean_boundaries_keep_equal(height, Tail(bs),
                                     Append(clean, Max(0, Min(height, Head(bs)))))
\* faulty variant: dedupes, and does not clamp
RECURSIVE clean_boundaries_unclamped(_, _, _)
clean_boundaries_unclamped(height, bs, clean) ==
    IF bs = <<>> THEN clean
    ELSE IF clean # <<>> /\ Head(bs) = clean[Len(clean)]
         THEN clean_boundaries_unclamped(height, Tail(bs), clean)
         ELSE clean_boundaries_unclamped(height, Tail(bs), Append(clean, Head(bs)))
\* the loop "dedupe and clamp boundaries"; clean is the list built so far
RECURSIVE clean_boundaries(_, _, _)
clean_boundaries(height, bs, clean) ==
    IF bs = <<>> THEN clean
    ELSE LET b == Max(0, Min(height, Head(bs)))
         IN  IF clean # <<>> /\ b = clean[Len(clean)]
             THEN clean_boundaries(height, Tail(bs), clean)
             ELSE clean_boundaries(height, Tail(bs), Append(clean, b))

segment_candidates(clean) ==
    [i \in 1..(Len(clean) - 1) |-> [start |-> clean[i], end |-> clean[i + 1]]]

IsValid(seg) == seg.end - seg.start > 0
IsSkipped(seg) == seg.end - seg.start <= 0

valid_segments(candidates) == SelectSeq(candidates, IsValid)

pad_width(valid) == Max(3, Len(Str(IF Len(valid) = 0 THEN 1 ELSE Len(valid))))

Path(dir, name) == dir \o <<"/">> \o name

\* f"{index:0{pad_width}d}.{ext}"
filename(n, pad, ext) == ZeroPad(Str(n), pad) \o <<".">> \o ext

\* faulty variant: the file is numbered by the files written so far
SaveOne_counts_written(seg, n, acc, a) ==
    LET rect == [x |-> 0, y |-> seg.start, width |-> a.width,
                 height |-> seg.end - seg.start]
        output_path == Path(a.output_dir, filename(Len(acc.written) + 1, a.pad, a.ext))
        ok == n \in a.save_ok
        save == [path |-> output_path, rect |-> rect, format |-> a.qt_format,
                 quality |-> IF a.qt_format = Upper(JPEG) THEN a.jpeg_quality ELSE -1,
                 ok |-> ok]
    IN  [written |-> IF ok THEN Append(acc.written, output_path) ELSE acc.written,
         errors  |-> IF ok THEN acc.errors
                     ELSE Append(acc.errors,
                                 [key |-> "error.save_failed", path |-> output_path]),
         saves   |-> Append(acc.saves, save)]
\* one pass of the loop body for segment number n (index in the code);
\* acc is [written, errors, saves]; saves lists the calls of cropped.save
SaveOne(seg, n, acc, a) ==
    LET rect == [x |-> 0, y |-> seg.start, width |-> a.width,
                 height |-> seg.end - seg.start]
        output_path == Path(a.output_dir, filename(n, a.pad, a.ext))
        ok == n \in a.save_ok
        save == [path |-> output_path, rect |-> rect, format |-> a.qt_format,
                 quality |-> IF a.qt_format = Upper(JPEG) THEN a.jpeg_quality ELSE -1,
                 ok |-> ok]
    IN  [written |-> IF ok THEN Append(acc.written, output_path) ELSE acc.written,
         errors  |-> IF ok THEN acc.errors
                     ELSE Append(acc.errors,
                                 [key |-> "error.save_failed", path |-> output_path]),
         saves   |-> Append(acc.saves, save)]

\* faulty variant: the first failed save ends the loop
RECURSIVE SaveLoop_stops(_, _, _, _)
SaveLoop_stops(valid, n, acc, a) ==
    IF n > Len(valid) THEN acc
    ELSE IF n \notin a.save_ok THEN SaveOne(valid[n], n, acc, a)
    ELSE SaveLoop_stops(valid, n + 1, SaveOne(valid[n], n, acc, a), a)
\* for start, end in valid_segments: ... index += 1
RECURSIVE SaveLoop(_, _, _, _)
SaveLoop(valid, n, acc, a) ==
    IF n > Len(valid) THEN acc
    ELSE SaveLoop(valid, n + 1, SaveOne(valid[n], n, acc, a), a)

Descriptor(seg) == Str(seg.start) \o <<"-">> \o Str(seg.end)

skipped_of(candidates) ==
    LET sk == SelectSeq(candidates, IsSkipped)
    IN  [i \in DOMAIN sk |-> Descriptor(sk[i])]

\* the arguments of export_image_segments, as one record
ExportArgs(img, ls, output_dir, export_format, jpeg_quality, original_suffix) ==
    [image |-> img, lines |-> ls, output_dir |-> output_dir,
     export_format |-> export_format, jpeg_quality |-> jpeg_quality,
     original_suffix |-> original_suffix]

\* the body after ensure_directory succeeded
Slice(args, save_ok) ==
    LET height == args.image.height
        clean == clean_boundaries(height, boundaries(height, args.lines), <<>>)
        candidates == segment_candidates(clean)
        valid == valid_segments(candidates)
        a == [width |-> args.image.width, pad |-> pad_width(valid),
              ext |-> _resolve_extension(args.export_format, args.original_suffix),
              qt_format |-> _resolve_qt_format(args.export_format, args.original_suffix),
              jpeg_quality |-> args.jpeg_quality, output_dir |-> args.output_dir,
              save_ok |-> save_ok]
        done == SaveLoop(valid, 1, [written |-> <<>>, errors |-> <<>>, saves |-> <<>>], a)
    IN  [result |-> ExportResult(done.written, skipped_of(candidates), done.errors),
         saves |-> done.saves]

DirError(args) == [key |-> "OSError", path |-> args.output_dir]

\* faulty variant: the error of ensure_directory is recorded and the export goes on
export_image_segments_goes_on(args, env) ==
    LET r == Slice(args, env.save_ok)
    IN  IF env.dir_ok THEN r
        ELSE [r EXCEPT !.result.errors = <<DirError(args)>> \o r.result.errors]
\* env is what the file system does: dir_ok, whether ensure_directory returns
\* None; save_ok, the numbers of the calls of cropped.save that return True.
\* The value is [result |-> the ExportResult, saves |-> the calls of save].
export_image_segments(args, env) ==
    IF ~env.dir_ok
    THEN [result |-> ExportResult(<<>>, <<>>, <<DirError(args)>>), saves |-> <<>>]
    ELSE Slice(args, env.save_ok)

----------------------------------------------------------------------------
(* src/core/controller.py: the public operations *)

\* status_message before its first emission in a call
NoStatus == ""

\* status_message is the payload of the last status message of the running
\* operation, by the key of its text
G ==
    [lines |-> lines, selected_id |-> selected_id, lines_changed |-> lines_changed,
     selection_changed |-> selection_changed,
     undo_state_changed |-> undo_state_changed, status_message |-> NoStatus,
     emitted |-> <<>>]
CS == [stack |-> stack, index |-> index]

NoResult == ExportResult(<<>>, <<>>, <<>>)
NoCall == [op |-> "none"]
\* undo_state_changed before its first emission
NoPair == <<>>

\* returned is what the call returned, as Python prints it
Last(op, outcome, emitted) ==
    [op |-> op, outcome |-> outcome, result |-> NoResult, saves |-> <<>>,
     emitted |-> emitted, returned |-> "None", status |-> NoStatus]

\* the record of a call that emitted what g holds
Told(op, outcome, g) ==
    [Last(op, outcome, g.emitted) EXCEPT !.status = g.status_message]

Serials(st) == {st[i].serial : i \in DOMAIN st}

select_line(g, line_id) ==
    IF line_id # None /\ line_id \notin DOMAIN g.lines THEN g
    ELSE Emit([g EXCEPT !.selected_id = line_id], "selection_changed", line_id)

\* self.status_message.emit(self._i18n.tr(key))
Status(g, key) == Emit(g, "status_message", key)

\* the controller after an operation that left r = [cs, g]
Apply(r, pushed, op, outcome) ==
    /\ stack' = r.cs.stack
    /\ index' = r.cs.index
    /\ lines' = r.g.lines
    /\ selected_id' = r.g.selected_id
    /\ lines_changed' = r.g.lines_changed
    /\ selection_changed' = r.g.selection_changed
    /\ undo_state_changed' = r.g.undo_state_changed
    /\ last' = Told(op, outcome, r.g)
    /\ discarded' = discarded \cup (Serials(stack) \ Serials(r.cs.stack))
    /\ next_cmd' = IF pushed THEN next_cmd + 1 ELSE next_cmd
    /\ before' = IF pushed THEN Append(SubSeq(before, 1, Len(r.cs.stack) - 1), lines)
                 ELSE before
    /\ UNCHANGED <<image, snap_mode, grid_size, call, base_lines, reset_id, reset_cmd, now, exported>>

\* the operation returned early, having pushed no command; g holds what it emitted
Return(g, op, outcome) ==
    /\ Apply([cs |-> CS, g |-> g], FALSE, op, outcome)
    /\ UNCHANGED next_id

\* the operation returned without touching the controller and emitted nothing
Quiet(op, outcome) ==
    /\ last' = Last(op, outcome, <<>>)
    /\ UNCHANGED <<image, lines, selected_id, snap_mode, grid_size, stack, index,
                   next_id, next_cmd, lines_changed, selection_changed,
                   undo_state_changed, call, base_lines, before, discarded, reset_id,
                   reset_cmd, now, exported>>

\* the end of a command-pushing operation: self._emit_undo_state()
Pushing(r, op) ==
    Apply([r EXCEPT !.g = _emit_undo_state(r.g, can_undo(r.cs), can_redo(r.cs))],
          TRUE, op, "ok")

\* faulty variant: the command history survives
Reset_keep_history(img, op, g) ==
    /\ image' = img
    /\ lines' = <<>>
    /\ selected_id' = None
    /\ lines_changed' = g.lines_changed
    /\ selection_changed' = g.selection_changed
    /\ undo_state_changed' = g.undo_state_changed
    /\ last' = [Told(op, "ok", g)
                  EXCEPT !.returned = IF op = "load_image" THEN "True" ELSE "None"]
    /\ base_lines' = lines'
    /\ reset_id' = next_id
    /\ reset_cmd' = next_cmd
    /\ UNCHANGED <<stack, index, before, snap_mode, grid_size, next_id, next_cmd, call,
                   discarded, now, exported>>
\* self._lines.clear(); self._selected_id = None; self._commands = CommandStack();
\* g holds the signals the caller emits
Reset(img, op, g) ==
    /\ image' = img
    /\ lines' = <<>>
    /\ selected_id' = None
    /\ stack' = CommandStack.stack
    /\ index' = CommandStack.index
    /\ lines_changed' = g.lines_changed
    /\ selection_changed' = g.selection_changed
    /\ undo_state_changed' = g.undo_state_changed
    /\ last' = [Told(op, "ok", g)
                  EXCEPT !.returned = IF op = "load_image" THEN "True" ELSE "None"]
    /\ base_lines' = lines'
    /\ before' = <<>>
    /\ reset_id' = next_id
    /\ reset_cmd' = next_cmd
    /\ UNCHANGED <<snap_mode, grid_size, next_id, next_cmd, call, discarded, now, exported>>

\* faulty variant: a failed load clears the guide set and the history all the same
LoadImage_always_resets(decoded) ==
    IF decoded = <<>>
    THEN Reset(image, "load_image", Status(G, "status.failed_load"))
    ELSE Reset(decoded, "load_image",
               Status(Emit(Emit(Emit(G, "image_changed", decoded), "lines_changed", <<>>),
                           "undo_state_changed", <<FALSE, FALSE>>), "status.loaded"))
\* decoded is what image_loader.load_image returned: <<>> (None) or <<image>>
LoadImage(decoded) ==
    IF decoded = <<>>
    THEN /\ last' = [Told("load_image", "failed_load", Status(G, "status.failed_load"))
                       EXCEPT !.returned = "False"]
         /\ UNCHANGED <<image, lines, selected_id, snap_mode, grid_size, stack, index,
                        next_id, next_cmd, lines_changed, selection_changed,
                        undo_state_changed, call, base_lines, before, discarded,
                        reset_id, reset_cmd, now, exported>>
    ELSE Reset(decoded, "load_image",
               Status(Emit(Emit(Emit(G, "image_changed", decoded), "lines_changed", <<>>),
                           "undo_state_changed", <<FALSE, FALSE>>), "status.loaded"))

\* faulty variant: the lines are snapped again in the new mode
SetSnapMode_resnaps(mode) ==
    /\ snap_mode' = mode
    /\ lines' = [i \in DOMAIN lines |->
                    [lines[i] EXCEPT !.y = _normalize_y(image, @, mode, grid_size)]]
    /\ last' = Told("set_snap_mode", "ok", Status(G, "status.snap_mode"))
    /\ UNCHANGED <<image, selected_id, grid_size, stack, index, next_id,
                   next_cmd, lines_changed, selection_changed, undo_state_changed,
                   call, base_lines, before, discarded, reset_id, reset_cmd, now, exported>>
SetSnapMode(mode) ==
    /\ snap_mode' = mode
    /\ last' = Told("set_snap_mode", "ok", Status(G, "status.snap_mode"))
    /\ UNCHANGED <<image, lines, selected_id, grid_size, stack, index, next_id,
                   next_cmd, lines_changed, selection_changed, undo_state_changed,
                   call, base_lines, before, discarded, reset_id, reset_cmd, now, exported>>

\* faulty variant: the size is stored as given
SetGridSize_unfloored(size) ==
    /\ grid_size' = size
    /\ last' = Last("set_grid_size", "ok", <<>>)
    /\ UNCHANGED <<image, lines, selected_id, snap_mode, stack, index, next_id,
                   next_cmd, lines_changed, selection_changed, undo_state_changed,
                   call, base_lines, before, discarded, reset_id, reset_cmd, now, exported>>
SetGridSize(size) ==
    /\ grid_size' = Max(1, size)
    /\ last' = Last("set_grid_size", "ok", <<>>)
    /\ UNCHANGED <<image, lines, selected_id, snap_mode, stack, index, next_id,
                   next_cmd, lines_changed, selection_changed, undo_state_changed,
                   call, base_lines, before, discarded, reset_id, reset_cmd, now, exported>>

\* faulty variant: a line is added whether or not an image is open
AddLine_without_image(raw) ==
    LET y == _normalize_y(image, raw, snap_mode, grid_size)
    IN  IF _is_duplicate_y(lines, y, None)
        THEN Return(Status(G, "status.line_exists"), "add_line", "line_exists")
        ELSE /\ next_id < MaxIds
             /\ next_cmd < MaxCmds
             /\ LET line == GuideLine(next_id + 1, y, FALSE)
                    cmd == AddLineCommand(next_cmd + 1, line)
                    r == push_and_execute(CS, cmd, G)
                IN  Pushing([r EXCEPT !.g = select_line(r.g, line.id)], "add_line")
             /\ next_id' = next_id + 1
\* faulty variant: the id of the new line is the number of lines plus one, so the
\* id of a deleted line comes back
AddLine_reuses_id(raw) ==
    IF image = <<>> THEN Return(Status(G, "status.open_first"), "add_line", "open_first")
    ELSE LET y == _normalize_y(image, raw, snap_mode, grid_size)
         IN  IF _is_duplicate_y(lines, y, None)
             THEN Return(Status(G, "status.line_exists"), "add_line", "line_exists")
             ELSE /\ next_id < MaxIds
                  /\ next_cmd < MaxCmds
                  /\ LET line == GuideLine(Cardinality(DOMAIN lines) + 1, y, FALSE)
                         cmd == AddLineCommand(next_cmd + 1, line)
                         r == push_and_execute(CS, cmd, G)
                     IN  Pushing([r EXCEPT !.g = select_line(r.g, line.id)], "add_line")
                  /\ next_id' = next_id + 1
\* line.id is str(uuid.uuid4()): the next of the values never drawn before
AddLine(raw) ==
    IF image = <<>> THEN Return(Status(G, "status.open_first"), "add_line", "open_first")
    ELSE LET y == _normalize_y(image, raw, snap_mode, grid_size)
         IN  IF _is_duplicate_y(lines, y, None)
             THEN Return(Status(G, "status.line_exists"), "add_line", "line_exists")
             ELSE /\ next_id < MaxIds
                  /\ next_cmd < MaxCmds
                  /\ LET line == GuideLine(next_id + 1, y, FALSE)
                         cmd == AddLineCommand(next_cmd + 1, line)
                         r == push_and_execute(CS, cmd, G)
                     IN  Pushing([r EXCEPT !.g = select_line(r.g, line.id)], "add_line")
                  /\ next_id' = next_id + 1

\* faulty variant: an id that is not in the guide set falls back to the selection
DeleteLineFrom_falls_back(g, op, line_id) ==
    LET target_id == IF line_id \in DOMAIN g.lines THEN line_id ELSE g.selected_id
    IN  IF target_id = None \/ target_id \notin DOMAIN g.lines
        THEN Return(g, op, "noop")
        ELSE /\ next_cmd < MaxCmds
             /\ LET cmd == DeleteLineCommand(next_cmd + 1, g.lines[target_id])
                    r == push_and_execute(CS, cmd, g)
                IN  Pushing(IF r.g.selected_id = target_id
                            THEN [r EXCEPT !.g = Emit([r.g EXCEPT !.selected_id = None],
                                                      "selection_changed", None)]
                            ELSE r, op)
             /\ UNCHANGED next_id
\* faulty variant: the selection, when there is one, is the target
DeleteLineFrom_prefers_selection(g, op, line_id) ==
    LET target_id == IF g.selected_id # None THEN g.selected_id ELSE line_id
    IN  IF target_id = None \/ target_id \notin DOMAIN g.lines
        THEN Return(g, op, "noop")
        ELSE /\ next_cmd < MaxCmds
             /\ LET cmd == DeleteLineCommand(next_cmd + 1, g.lines[target_id])
                    r == push_and_execute(CS, cmd, g)
                IN  Pushing(IF r.g.selected_id = target_id
                            THEN [r EXCEPT !.g = Emit([r.g EXCEPT !.selected_id = None],
                                                      "selection_changed", None)]
                            ELSE r, op)
             /\ UNCHANGED next_id
\* delete_line called as operation op on a controller whose guide state is g
DeleteLineFrom(g, op, line_id) ==
    LET target_id == IF line_id # None THEN line_id ELSE g.selected_id
    IN  IF target_id = None \/ target_id \notin DOMAIN g.lines
        THEN Return(g, op, "noop")
        ELSE /\ next_cmd < MaxCmds
             /\ LET cmd == DeleteLineCommand(next_cmd + 1, g.lines[target_id])
                    r == push_and_execute(CS, cmd, g)
                IN  Pushing(IF r.g.selected_id = target_id
                            THEN [r EXCEPT !.g = Emit([r.g EXCEPT !.selected_id = None],
                                                      "selection_changed", None)]
                            ELSE r, op)
             /\ UNCHANGED next_id

DeleteLine(line_id) == DeleteLineFrom(G, "delete_line", line_id)

\* faulty variant: the guide set is emptied without a command
ClearLines_unrecorded ==
    IF DOMAIN lines = {} THEN Quiet("clear_lines", "noop")
    ELSE Return(Emit([_set_all_lines(G, <<>>) EXCEPT !.selected_id = None],
                     "selection_changed", None), "clear_lines", "ok")
ClearLines ==
    IF DOMAIN lines = {} THEN Quiet("clear_lines", "noop")
    ELSE /\ next_cmd < MaxCmds
         /\ LET cmd == ClearLinesCommand(next_cmd + 1, sorted_lines(lines))
                r == push_and_execute(CS, cmd, G)
            IN  Pushing([r EXCEPT !.g = Emit([r.g EXCEPT !.selected_id = None],
                                             "selection_changed", None)],
                        "clear_lines")
         /\ UNCHANGED next_id

\* faulty variant: the signals are emitted without an image as well
CloseImage_unguarded ==
    Reset(<<>>, "close_image",
          Status(Emit(Emit(Emit(Emit(G, "lines_changed", <<>>),
                                "selection_changed", None),
                           "undo_state_changed", <<FALSE, FALSE>>),
                      "image_cleared", <<>>), "status.image_closed"))
CloseImage ==
    IF image = <<>> THEN Quiet("close_image", "noop")
    ELSE Reset(<<>>, "close_image",
               Status(Emit(Emit(Emit(Emit(G, "lines_changed", <<>>),
                                     "selection_changed", None),
                                "undo_state_changed", <<FALSE, FALSE>>),
                           "image_cleared", <<>>), "status.image_closed"))

\* faulty variant: a locked line is not moved
MoveLineFrom_respects_lock(g, op, line_id, raw) ==
    IF line_id \notin DOMAIN g.lines \/ image = <<>> THEN Return(g, op, "noop")
    ELSE LET line == g.lines[line_id]
             new_y == _normalize_y(image, raw, snap_mode, grid_size)
         IN  IF IsClose(new_y, line.y) \/ line.locked THEN Return(g, op, "unchanged")
             ELSE IF _is_duplicate_y(g.lines, new_y, line_id)
                  THEN Return(Status(g, "status.line_exists_other"), op,
                              "line_exists_other")
             ELSE /\ next_cmd < MaxCmds
                  /\ LET cmd == MoveLineCommand(next_cmd + 1, line_id, line.y, new_y)
                     IN  Pushing(push_and_execute(CS, cmd, g), op)
                  /\ UNCHANGED next_id
\* move_line called as operation op on a controller whose guide state is g
MoveLineFrom(g, op, line_id, raw) ==
    IF line_id \notin DOMAIN g.lines \/ image = <<>> THEN Return(g, op, "noop")
    ELSE LET line == g.lines[line_id]
             new_y == _normalize_y(image, raw, snap_mode, grid_size)
         IN  IF IsClose(new_y, line.y) THEN Return(g, op, "unchanged")
             ELSE IF _is_duplicate_y(g.lines, new_y, line_id)
                  THEN Return(Status(g, "status.line_exists_other"), op,
                              "line_exists_other")
             ELSE /\ next_cmd < MaxCmds
                  /\ LET cmd == MoveLineCommand(next_cmd + 1, line_id, line.y, new_y)
                     IN  Pushing(push_and_execute(CS, cmd, g), op)
                  /\ UNCHANGED next_id

MoveLine(line_id, raw) == MoveLineFrom(G, "move_line", line_id, raw)

\* faulty variant: a command is pushed even when the flag has the value already
SetLocked_always_pushes(line_id, locked) ==
    IF line_id \notin DOMAIN lines THEN Quiet("set_locked", "noop")
    ELSE /\ next_cmd < MaxCmds
         /\ LET cmd == LockLineCommand(next_cmd + 1, line_id, locked)
            IN  Pushing(push_and_execute(CS, cmd, G), "set_locked")
         /\ UNCHANGED next_id
SetLocked(line_id, locked) ==
    IF line_id \notin DOMAIN lines THEN Quiet("set_locked", "noop")
    ELSE IF lines[line_id].locked = locked THEN Quiet("set_locked", "unchanged")
    ELSE /\ next_cmd < MaxCmds
         /\ LET cmd == LockLineCommand(next_cmd + 1, line_id, locked)
            IN  Pushing(push_and_execute(CS, cmd, G), "set_locked")
         /\ UNCHANGED next_id

SelectLine(line_id) ==
    Return(select_line(G, line_id), "select_line",
           IF line_id # None /\ line_id \notin DOMAIN lines THEN "noop" ELSE "ok")

Undo ==
    /\ LET r == stack_undo(CS, G)
       IN  Apply([r EXCEPT !.g = _emit_undo_state(r.g, can_undo(r.cs), can_redo(r.cs))],
                 FALSE, "undo", IF can_undo(CS) THEN "ok" ELSE "noop")
    /\ UNCHANGED next_id

Redo ==
    /\ LET r == stack_redo(CS, G)
       IN  Apply([r EXCEPT !.g = _emit_undo_state(r.g, can_undo(r.cs), can_redo(r.cs))],
                 FALSE, "redo", IF can_redo(CS) THEN "ok" ELSE "noop")
    /\ UNCHANGED next_id

OutputDir == <<"o", "u", "t">>

\* datetime.now().strftime("%Y-%m-%d_%H-%M-%S"): the clock cut to whole seconds;
\* the sessions modelled last less than a minute
strftime(t) ==
    <<"2", "0", "2", "4", "-", "0", "1", "-", "0", "1", "_", "0", "0", "-", "0", "0", "-">>
        \o ZeroPad(Str(t \div 2), 2)

\* f"{ts}_{rand:03d}"
subdir(ts, rand) == ts \o <<"_">> \o ZeroPad(Str(rand), 3)

\* the calls of export_image_segments one session makes
SessionExports == 1..2

\* faulty variant: the selection is dropped when the export has run
Export_clears_selection(output_dir, export_format, jpeg_quality, rand, env) ==
    IF image = <<>> THEN Return(Status(G, "status.open_first"), "export", "open_first")
    ELSE LET target_dir == Path(output_dir, subdir(strftime(now), rand))
             r == export_image_segments(
                      ExportArgs(image[1], sorted_lines(lines), target_dir, export_format,
                                 jpeg_quality, image[1].suffix), env)
             failed == r.result.errors # <<>>
             g == Status(Emit(G, "export_finished", r.result),
                         IF failed THEN "status.export_errors" ELSE "status.export_ok")
         IN  /\ Len(exported) + 1 \in SessionExports
             /\ last' = [Told("export", IF failed THEN "errors" ELSE "ok", g)
                           EXCEPT !.result = r.result, !.saves = r.saves]
             /\ exported' = Append(exported, [dir |-> target_dir,
                                               written |-> r.result.written])
             /\ selected_id' = None
             /\ UNCHANGED <<image, lines, snap_mode, grid_size, stack, index,
                            next_id, next_cmd, lines_changed, selection_changed,
                            undo_state_changed, call, base_lines, before, discarded,
                            reset_id, reset_cmd, now>>
\* rand is what random.randint(0, 999) returned, env what the file system does
Export(output_dir, export_format, jpeg_quality, rand, env) ==
    IF image = <<>> THEN Return(Status(G, "status.open_first"), "export", "open_first")
    ELSE LET target_dir == Path(output_dir, subdir(strftime(now), rand))
             r == export_image_segments(
                      ExportArgs(image[1], sorted_lines(lines), target_dir, export_format,
                                 jpeg_quality, image[1].suffix), env)
             failed == r.result.errors # <<>>
             g == Status(Emit(G, "export_finished", r.result),
                         IF failed THEN "status.export_errors" ELSE "status.export_ok")
         IN  /\ Len(exported) + 1 \in SessionExports
             /\ last' = [Told("export", IF failed THEN "errors" ELSE "ok", g)
                           EXCEPT !.result = r.result, !.saves = r.saves]
             /\ exported' = Append(exported, [dir |-> target_dir,
                                               written |-> r.result.written])
             /\ UNCHANGED <<image, lines, selected_id, snap_mode, grid_size, stack, index,
                            next_id, next_cmd, lines_changed, selection_changed,
                            undo_state_changed, call, base_lines, before, discarded,
                            reset_id, reset_cmd, now>>

(* src/ui: the gestures of the main window that act on one line.  The canvas *)
(* items and the table rows are made from the payload of lines_changed      *)
(* (MainWindow._on_lines_changed), so what the widgets know of a line is    *)
(* its entry in the last payload.  A drag is taken as one step, from the    *)
(* press to the release of the button.                                      *)

\* the lines the widgets show, by id
Shown == FromList(lines_changed)

\* CanvasView._snap_mode and _grid_size: MainWindow never calls
\* CanvasView.set_snap_mode or set_grid_size, so they stay as constructed
CanvasSnap == [snap_mode |-> "pixel", grid_size |-> 10]

\* where the canvas draws the dragged line for a pointer position:
\* mouseMoveEvent's own clamp and snap
Drawn(pointer) ==
    apply_snap(clamp(pointer, 0, Px(image[1].height)),
               CanvasSnap.snap_mode, CanvasSnap.grid_size)

\* mousePressEvent on the item of line_id, mouseMoveEvent to pointer,
\* mouseReleaseEvent
CanvasDrag(line_id, pointer) ==
    /\ image # <<>>
    /\ line_id \in DOMAIN Shown
    /\ LET pressed == select_line(G, line_id)
           y == Drawn(pointer)
       IN  IF Shown[line_id].locked THEN Return(pressed, "canvas_drag", "locked")
           ELSE MoveLineFrom(pressed, "canvas_drag", line_id, y)

\* the y of the item of the dragged line once the release has been handled:
\* _on_lines_changed runs set_lines, and update_from_model puts the item at the
\* y of the payload, when lines_changed was emitted during the call; when it
\* was not, nothing sets the item's line and it stays where mouseMoveEvent drew it
ItemY(line_id, pointer, emitted, payload) ==
    IF \E k \in DOMAIN emitted : emitted[k] = "lines_changed"
    THEN FromList(payload)[line_id].y
    ELSE Drawn(pointer)

\* the y cell of a row is edited: the cell is editable when the line shown is
\* not locked
EditYCell(line_id, value) ==
    /\ line_id \in DOMAIN Shown
    /\ ~Shown[line_id].locked
    /\ MoveLineFrom(G, "edit_y_cell", line_id, value)

\* the delete-line action, enabled when an image is open and a line selected
DeleteLineAction ==
    /\ image # <<>>
    /\ selected_id # None
    /\ DeleteLineFrom(G, "delete_line_action", None)

Init ==
    /\ image = <<>>
    /\ lines = <<>>
    /\ selected_id = None
    /\ snap_mode = "pixel"
    /\ grid_size = 10
    /\ stack = CommandStack.stack
    /\ index = CommandStack.index
    /\ next_id = 0
    /\ next_cmd = 0
    /\ lines_changed = <<>>
    /\ selection_changed = None
    /\ undo_state_changed = NoPair
    /\ call = NoCall
    /\ last = Last("init", "ok", <<>>)
    /\ base_lines = <<>>
    /\ before = <<>>
    /\ discarded = {}
    /\ reset_id = 0
    /\ reset_cmd = 0
    /\ now = 0
    /\ exported = <<>>

Next ==
    \/ \E decoded \in {<<>>} \cup {<<i>> : i \in Images} : LoadImage(decoded)
    \/ \E mode \in SnapModes : SetSnapMode(mode)
    \/ \E size \in GridInputs : SetGridSize(size)
    \/ \E raw \in RawYs : AddLine(raw)
    \/ \E line_id \in Ids \cup {None} : DeleteLine(line_id)
    \/ ClearLines
    \/ CloseImage
    \/ \E line_id \in Ids, raw \in RawYs : MoveLine(line_id, raw)
    \/ \E line_id \in Ids, locked \in BOOLEAN : SetLocked(line_id, locked)
    \/ \E line_id \in Ids \cup {None} : SelectLine(line_id)
    \/ Undo
    \/ Redo
    \/ \E line_id \in Ids, pointer \in GestureYs : CanvasDrag(line_id, pointer)
    \/ \E line_id \in Ids, value \in GestureYs : EditYCell(line_id, value)
    \/ DeleteLineAction

Spec == Init /\ [][Next]_vars

----------------------------------------------------------------------------
(* A session with exports: SpecSession runs the controller with fewer inputs *)
(* per operation, the export operation and the passing of time.              *)

\* raw y passed to add_line: 1 and 2.5 pixel
SessionYs == {20, 50}
\* the clock, in half seconds: two readings within one second, one in the next
Clock == 0..2
\* values of random.randint(0, 999)
Rands == {7, 999}
SessionFormats == {"png"}
\* the directory cannot be made; every save succeeds; only the second does
SessionEnvs == {[dir_ok |-> FALSE, save_ok |-> {}],
                [dir_ok |-> TRUE, save_ok |-> 1..(MaxLines + 1)],
                [dir_ok |-> TRUE, save_ok |-> {2}]}

\* half a second passes
Tick ==
    /\ now + 1 \in Clock
    /\ now' = now + 1
    /\ UNCHANGED <<image, lines, selected_id, snap_mode, grid_size, stack, index,
                   next_id, next_cmd, lines_changed, selection_changed,
                   undo_state_changed, call, last, base_lines, before, discarded,
                   reset_id, reset_cmd, exported>>

NextSession ==
    \/ \E decoded \in {<<>>} \cup {<<i>> : i \in Images} : LoadImage(decoded)
    \/ \E raw \in SessionYs : AddLine(raw)
    \/ CloseImage
    \/ \E line_id \in Ids \cup {None} : SelectLine(line_id)
    \/ Undo
    \/ Redo
    \/ \E f \in SessionFormats, rand \in Rands, env \in SessionEnvs :
           Export(OutputDir, f, 90, rand, env)
    \/ Tick

SpecSession == Init /\ [][NextSession]_vars

----------------------------------------------------------------------------
(* export_image_segments called on its own: SpecExport draws the arguments  *)
(* and the behaviour of the file system, and ExportSegments makes the call. *)

ExportHeights == {100}
\* y of the lines passed: -1, 0, 30, 30.05, 70, 100 and 101 pixel
ExportYs == {-20, 0, 600, 601, 1400, 2000, 2020}
ExportFormats == {[export_format |-> "png", original_suffix |-> <<".", "j", "p", "g">>],
                  [export_format |-> "keep", original_suffix |-> <<".", "J", "P", "G">>]}
\* the file system: any set of failing saves when the directory is made
ExportEnvs ==
    {[dir_ok |-> TRUE, save_ok |-> ok] : ok \in SUBSET (1..(MaxLines + 1))}
    \cup {[dir_ok |-> FALSE, save_ok |-> ok] : ok \in {{}, 1..(MaxLines + 1)}}

\* more formats and suffixes, each exported with no line, one line and two lines:
\* JPEG, and KEEP of a file named without extension, .jpeg, .PNG, .Bmp and .gif
MoreFormats ==
    {[export_format |-> "jpeg", original_suffix |-> <<".", "p", "n", "g">>],
     [export_format |-> "keep", original_suffix |-> <<>>],
     [export_format |-> "keep", original_suffix |-> <<".", "j", "p", "e", "g">>],
     [export_format |-> "keep", original_suffix |-> <<".", "P", "N", "G">>],
     [export_format |-> "keep", original_suffix |-> <<".", "B", "m", "p">>],
     [export_format |-> "keep", original_suffix |-> <<".", "g", "i", "f">>]}
MoreLineSeqs == {<<>>, <<600>>, <<600, 1400>>}
\* the formats QImage.save has an encoder for (Qt reads GIF and does not write
\* it); with any other format save returns False
QtWriters == {<<"P", "N", "G">>, <<"J", "P", "E", "G">>, <<"J", "P", "G">>,
              <<"B", "M", "P">>}
\* the file system e is one Qt can show when save is given the format of f
Encodes(e, f) ==
    \/ _resolve_qt_format(f.export_format, f.original_suffix) \in QtWriters
    \/ e.save_ok = {}

LineSeqs == UNION {[1..n -> ExportYs] : n \in 0..MaxLines}

\* the smallest images, of one and two rows, with lines at -1, 0.5, 1, 1.5, 2
\* and 3 pixel in any order and number up to MaxLines, every save succeeding
EdgeHeights == {1, 2}
EdgeYs == {-20, 10, 20, 30, 40, 60}
EdgeLineSeqs == UNION {[1..n -> EdgeYs] : n \in 0..MaxLines}
EdgeFormat == [export_format |-> "png", original_suffix |-> <<".", "p", "n", "g">>]
EdgeEnv == [dir_ok |-> TRUE, save_ok |-> 1..(MaxLines + 1)]

ExportCall(h, ys, f, e) ==
    [op |-> "export_image_segments",
     args |-> ExportArgs([width |-> 4, height |-> h],
                         [i \in DOMAIN ys |-> GuideLine(i, ys[i], FALSE)],
                         OutputDir, f.export_format, 90, f.original_suffix),
     env |-> e]

\* the file name of segment number index among count valid segments, computed on
\* its own: counts of up to five digits, which no export above reaches
NameCounts == {0, 1, 9, 10, 99, 100, 999, 1000, 1001, 9999, 10000}
NameIndexes == {1, 2, 9, 10, 99, 100, 999, 1000, 1001, 9999, 10000}
NameCall(count, n, f) ==
    [op |-> "pad_width", count |-> count, index |-> n,
     export_format |-> f.export_format, original_suffix |-> f.original_suffix]

InitExport ==
    /\ image = <<>>
    /\ lines = <<>>
    /\ selected_id = None
    /\ snap_mode = "pixel"
    /\ grid_size = 10
    /\ stack = CommandStack.stack
    /\ index = CommandStack.index
    /\ next_id = 0
    /\ next_cmd = 0
    /\ lines_changed = <<>>
    /\ selection_changed = None
    /\ undo_state_changed = NoPair
    /\ \/ \E h \in ExportHeights, ys \in LineSeqs, f \in ExportFormats, e \in ExportEnvs :
              call = ExportCall(h, ys, f, e)
       \/ \E h \in ExportHeights, ys \in MoreLineSeqs, f \in MoreFormats, e \in ExportEnvs :
              Encodes(e, f) /\ call = ExportCall(h, ys, f, e)
       \/ \E h \in EdgeHeights, ys \in EdgeLineSeqs :
              call = ExportCall(h, ys, EdgeFormat, EdgeEnv)
       \/ \E count \in NameCounts, n \in NameIndexes, f \in ExportFormats :
              n <= count /\ call = NameCall(count, n, f)
    /\ last = Last("init", "ok", <<>>)
    /\ base_lines = <<>>
    /\ before = <<>>
    /\ discarded = {}
    /\ reset_id = 0
    /\ reset_cmd = 0
    /\ now = 0
    /\ exported = <<>>

ExportSegments ==
    /\ call.op = "export_image_segments"
    /\ last.op = "init"
    /\ LET r == export_image_segments(call.args, call.env)
       IN  last' = [op |-> "export_image_segments",
                    outcome |-> IF r.result.errors = <<>> THEN "ok" ELSE "errors",
                    result |-> r.result, saves |-> r.saves, emitted |-> <<>>,
                    returned |-> "ExportResult", status |-> NoStatus]
    /\ UNCHANGED <<image, lines, selected_id, snap_mode, grid_size, stack, index,
                   next_id, next_cmd, lines_changed, selection_changed,
                   undo_state_changed, call, base_lines, before, discarded, reset_id,
                   reset_cmd, now, exported>>

\* pad_width and the file name, as export_image_segments computes them
NameFile ==
    /\ call.op = "pad_width"
    /\ last.op = "init"
    /\ LET valid == [i \in 1..call.count |-> [start |-> i - 1, end |-> i]]
           pad == pad_width(valid)
           ext == _resolve_extension(call.export_format, call.original_suffix)
       IN  last' = [op |-> "pad_width", outcome |-> "ok",
                    result |-> [pad_width |-> pad,
                                filename |-> filename(call.index, pad, ext)],
                    saves |-> <<>>, emitted |-> <<>>, returned |-> "None",
                    status |-> NoStatus]
    /\ UNCHANGED <<image, lines, selected_id, snap_mode, grid_size, stack, index,
                   next_id, next_cmd, lines_changed, selection_changed,
                   undo_state_changed, call, base_lines, before, discarded, reset_id,
                   reset_cmd, now, exported>>

NextExport == ExportSegments \/ NameFile

SpecExport == InitExport /\ [][NextExport]_vars

----------------------------------------------------------------------------
(* apply_snap called on its own: SpecSnap draws the arguments.              *)

\* y from -2.5 to 6.5 pixel in steps of 0.05 pixel
SnapYs == (-50)..130
SnapGrids == {-1, 0, 1, 2, 3}

InitSnap ==
    /\ image = <<>>
    /\ lines = <<>>
    /\ selected_id = None
    /\ snap_mode = "pixel"
    /\ grid_size = 10
    /\ stack = CommandStack.stack
    /\ index = CommandStack.index
    /\ next_id = 0
    /\ next_cmd = 0
    /\ lines_changed = <<>>
    /\ selection_changed = None
    /\ undo_state_changed = NoPair
    /\ \E y \in SnapYs, mode \in SnapModes, grid \in SnapGrids :
            call = [op |-> "apply_snap", y |-> y, snap_mode |-> mode, grid_size |-> grid]
    /\ last = Last("init", "ok", <<>>)
    /\ base_lines = <<>>
    /\ before = <<>>
    /\ discarded = {}
    /\ reset_id = 0
    /\ reset_cmd = 0
    /\ now = 0
    /\ exported = <<>>

ApplySnap ==
    /\ call.op = "apply_snap"
    /\ last.op = "init"
    /\ last' = [Last("apply_snap", "ok", <<>>)
                  EXCEPT !.result = apply_snap(call.y, call.snap_mode, call.grid_size)]
    /\ UNCHANGED <<image, lines, selected_id, snap_mode, grid_size, stack, index,
                   next_id, next_cmd, lines_changed, selection_changed,
                   undo_state_changed, call, base_lines, before, discarded, reset_id,
                   reset_cmd, now, exported>>

NextSnap == ApplySnap

SpecSnap == InitSnap /\ [][NextSnap]_vars

----------------------------------------------------------------------------
(* Properties of the controller and its command stack, under Spec *)

PushOps == {"add_line", "delete_line", "move_line", "set_locked", "clear_lines"}
Pushed == last.op \in PushOps /\ last.outcome = "ok"

\* C1: undo is a true inverse.  Whenever a command is redoable, the guide set
\* (ids, y, locked) is what it was just before that command was first executed;
\* and when undo has been called until can_undo is false, the guide set is the
\* one the command history started from.
C1_UndoIsInverse ==
    /\ can_redo(CS) => lines = before[index + 2]
    /\ ~can_undo(CS) => lines = base_lines

\* three commands, one of them a move, a lock or a delete, all undone by undo
C1_Witness ==
    /\ last.op = "undo" /\ last.outcome = "ok"
    /\ index = -1
    /\ Len(stack) = 3
    /\ \E i \in DOMAIN stack : stack[i].kind \in {"move", "lock", "delete"}

\* C2: no two distinct lines of the guide set are less than 0.1 pixel apart.
C2_NoDuplicates ==
    \A a, b \in DOMAIN lines :
        a # b => ~(10 * (lines[a].y - lines[b].y) < Scale
                   /\ 10 * (lines[b].y - lines[a].y) < Scale)

\* an add or a move was refused as a duplicate while two lines exist
C2_Witness ==
    /\ last.outcome \in {"line_exists", "line_exists_other"}
    /\ Cardinality(DOMAIN lines) = 2

\* C3: a push after undo drops every command that was redoable; right after the
\* push can_redo is false and can_undo is true; and a dropped command is never
\* on the stack again, so no redo executes it.
C3_RedoTruncation ==
    [][/\ next_cmd' > next_cmd =>
            /\ ~can_redo(CS')
            /\ can_undo(CS')
            /\ \A i \in (index + 2)..Len(stack) :
                   /\ stack[i].serial \notin Serials(stack')
                   /\ stack[i].serial \in discarded'
       /\ Serials(stack') \cap discarded' = {}]_vars

\* a redo is attempted after a push that dropped a redoable command
C3_Witness ==
    /\ discarded # {}
    /\ last.op = "redo"
    /\ Len(stack) >= 2

\* C4: the selection is none or the id of a line of the guide set, and a step
\* that removes the selected line leaves the selection none.
C4_SelectionValid ==
    /\ [](selected_id = None \/ selected_id \in DOMAIN lines)
    /\ [][(selected_id # None /\ selected_id \notin DOMAIN lines')
              => selected_id' = None]_vars

\* the undo of the AddLine that put the only line into the guide set
C4_Witness ==
    /\ last.op = "undo" /\ last.outcome = "ok"
    /\ Len(stack) = 1 /\ stack[1].kind = "add" /\ index = -1
    /\ selected_id = None

LineIdsOf(cmd) ==
    {cmd.line.id, cmd.line_id} \cup {cmd.previous[k].id : k \in DOMAIN cmd.previous}

\* C5: a successful load_image or close_image leaves an empty guide set, no
\* selection and an empty history; and at any later time neither the guide set
\* nor the history holds a line or a command made before it.
C5_HardReset ==
    /\ (last.op \in {"load_image", "close_image"} /\ last.outcome = "ok") =>
            /\ DOMAIN lines = {}
            /\ selected_id = None
            /\ ~can_undo(CS) /\ ~can_redo(CS)
            /\ stack = <<>>
    /\ \A i \in DOMAIN lines : i > reset_id /\ lines[i].id > reset_id
    /\ \A k \in DOMAIN stack :
            /\ stack[k].serial > reset_cmd
            /\ \A i \in LineIdsOf(stack[k]) : i = None \/ i > reset_id

\* undo or redo is called after a reset that dropped lines and commands
C5_Witness ==
    /\ reset_cmd > 0 /\ reset_id > 0
    /\ last.op \in {"undo", "redo"}

\* what the claims call the controller's state: image context, guide set,
\* selection and command history
Core == <<image, lines, selected_id, stack, index>>
Published == <<lines_changed, selection_changed, undo_state_changed>>

\* C12: a load_image whose decoding fails returns False and emits one status
\* message and nothing else; image, guide set, selection and command history
\* (so can_undo and can_redo) are as before the call.
C12_LoadFailureMutatesNothing ==
    [][(last'.op = "load_image" /\ LoadImage(<<>>)) =>
          /\ UNCHANGED Core
          /\ UNCHANGED Published
          /\ can_undo(CS') = can_undo(CS) /\ can_redo(CS') = can_redo(CS)
          /\ last'.returned = "False"
          /\ last'.emitted = <<"status_message">>]_vars

\* a load fails while an image is open with a selected line and a history that
\* can be undone and redone
C12_Witness ==
    /\ last.op = "load_image" /\ last.returned = "False"
    /\ image # <<>>
    /\ selected_id # None
    /\ can_undo(CS) /\ can_redo(CS)

\* delete_line(line_id) has no line to delete
NoTarget(line_id) ==
    \/ line_id = None /\ selected_id = None
    \/ line_id # None /\ line_id \notin DOMAIN lines

\* C13: delete_line with no id and no selection, or with an id that is not in
\* the guide set, emits no signal, pushes no command and leaves guide set,
\* selection and history as they were.
C13_DeleteWithoutTarget ==
    [][last'.op = "delete_line" =>
          \A line_id \in Ids \cup {None} :
              (NoTarget(line_id) /\ DeleteLine(line_id)) =>
                  /\ UNCHANGED Core
                  /\ UNCHANGED Published
                  /\ UNCHANGED <<next_cmd, discarded>>
                  /\ last'.emitted = <<>>]_vars

\* delete_line returned at once while another line is selected and the history
\* is not empty
C13_Witness ==
    /\ last.op = "delete_line" /\ last.emitted = <<>>
    /\ selected_id # None
    /\ Cardinality(DOMAIN lines) = 1
    /\ next_id = 2
    /\ stack # <<>>

\* C15: the cursor stays within -1 .. length - 1; can_undo is cursor >= 0 and
\* can_redo is cursor + 1 < length; undo at cursor -1 and redo at the top of the
\* stack run no command and change neither the cursor nor the stack.
C15_CursorInvariant ==
    /\ [](/\ -1 <= index /\ index <= Len(stack) - 1
          /\ can_undo(CS) = (index >= 0)
          /\ can_redo(CS) = (index + 1 < Len(stack)))
    /\ [][/\ (last'.op = "undo" /\ index < 0 /\ Undo) =>
                /\ UNCHANGED <<stack, index, lines, selected_id>>
                /\ last'.emitted = <<"undo_state_changed">>
          /\ (last'.op = "redo" /\ index + 1 >= Len(stack) /\ Redo) =>
                /\ UNCHANGED <<stack, index, lines, selected_id>>
                /\ last'.emitted = <<"undo_state_changed">>]_vars

\* undo is called with the cursor at -1 under a stack of two commands
C15_Witness ==
    /\ last.op = "undo" /\ last.emitted = <<"undo_state_changed">>
    /\ index = -1
    /\ Len(stack) = 2

\* C16: the payload of the last lines_changed signal (empty before the first)
\* holds the lines of the guide set, each once, in ascending y.
C16_PublishedLines ==
    /\ Len(lines_changed) = Cardinality(DOMAIN lines)
    /\ {lines_changed[i] : i \in DOMAIN lines_changed} = Values(lines)
    /\ \A i, j \in DOMAIN lines_changed :
           i < j => lines_changed[i].y < lines_changed[j].y

\* the undo of a ClearLinesCommand brought back two lines
C16_Witness ==
    /\ last.op = "undo"
    /\ can_redo(CS) /\ stack[index + 2].kind = "clear"
    /\ Len(lines_changed) = 2
    /\ lines_changed[1].id = 2

\* C17 (as claimed): the payload of the last selection_changed signal (None
\* before the first) is the controller's selection.
C17_PublishedSelection == selection_changed = selected_id

\* C18: the last published (can_undo, can_redo) pair is what the command stack
\* answers now; while no pair was ever published the history is still empty.
C18_PublishedUndoState ==
    /\ undo_state_changed # NoPair =>
           undo_state_changed = <<index >= 0, index + 1 < Len(stack)>>
    /\ undo_state_changed = NoPair => stack = <<>> /\ index = -1

\* an undo in the middle of the stack: both are published as true
C18_Witness ==
    /\ last.op = "undo"
    /\ undo_state_changed = <<TRUE, TRUE>>
    /\ index = 0 /\ Len(stack) = 3

Gestures == {"canvas_drag", "edit_y_cell", "delete_line_action"}

\* C19 (as claimed): no canvas drag, edit of a y cell or delete-line action
\* changes the y of a line that is locked, or removes it from the guide set.
C19_LockedProtected ==
    [][last'.op \in Gestures =>
          \A i \in DOMAIN lines :
              lines[i].locked => i \in DOMAIN lines' /\ lines'[i].y = lines[i].y]_vars

\* y after normalisation lies within 0.1 pixel of a line other than line_id
Taken(line_id, y) ==
    \E i \in DOMAIN lines \ {line_id} :
        10 * (lines[i].y - y) < Scale /\ 10 * (y - lines[i].y) < Scale

\* C20: move_line(id, y) and delete_line(id) called on a locked line do what
\* they do on an unlocked one: the move is refused only when the new y is within
\* 0.1 pixel of the old one or of another line, and otherwise the line has the
\* new y and is still locked; the delete removes the line.
C20_LockedMutable ==
    [][/\ \A line_id \in Ids, raw \in RawYs :
            (/\ last'.op = "move_line"
             /\ line_id \in DOMAIN lines /\ lines[line_id].locked
             /\ MoveLine(line_id, raw)) =>
                LET y == clamp(apply_snap(raw, snap_mode, grid_size), 0,
                               Px(image[1].height))
                    old == lines[line_id].y
                IN  IF (10 * (y - old) < Scale /\ 10 * (old - y) < Scale)
                       \/ Taken(line_id, y)
                    THEN UNCHANGED <<lines, stack, index>>
                    ELSE /\ lines' = [lines EXCEPT ![line_id].y = y]
                         /\ lines'[line_id].locked
                         /\ index' = index + 1
                         /\ stack'[index' + 1].kind = "move"
       /\ \A line_id \in Ids :
            (/\ last'.op = "delete_line"
             /\ line_id \in DOMAIN lines /\ lines[line_id].locked
             /\ DeleteLine(line_id)) =>
                /\ DOMAIN lines' = DOMAIN lines \ {line_id}
                /\ \A i \in DOMAIN lines' : lines'[i] = lines[i]
                /\ index' = index + 1
                /\ stack'[index' + 1].kind = "delete"]_vars

\* move_line has moved a locked line
C20_Witness ==
    /\ last.op = "move_line"
    /\ stack # <<>>
    /\ index + 1 = Len(stack)
    /\ stack[Len(stack)].kind = "move"
    /\ lines[stack[Len(stack)].line_id].locked
    /\ lines[stack[Len(stack)].line_id].y = stack[Len(stack)].new_y

\* the ids held by the commands of the history, redoable ones included
HistoryIds == UNION {LineIdsOf(stack[k]) : k \in DOMAIN stack}

\* C21: add_line(y) with an image loaded and no line within 0.1 pixel of the
\* normalized y adds one line, with the normalized y, unlocked, under an id
\* that is neither in the guide set nor held by a command of the history; it
\* pushes one AddLineCommand holding that line and selects the new id.
C21_AddLineEffect ==
    [][\A raw \in RawYs :
          (/\ last'.op = "add_line"
           /\ image # <<>>
           /\ ~Taken(None, clamp(apply_snap(raw, snap_mode, grid_size), 0,
                                 Px(image[1].height)))
           /\ AddLine(raw)) =>
              LET y == clamp(apply_snap(raw, snap_mode, grid_size), 0,
                             Px(image[1].height))
                  new == DOMAIN lines' \ DOMAIN lines
              IN  /\ Cardinality(new) = 1
                  /\ DOMAIN lines \subseteq DOMAIN lines'
                  /\ \A i \in DOMAIN lines : lines'[i] = lines[i]
                  /\ \A i \in new :
                        /\ lines'[i] = [id |-> i, y |-> y, locked |-> FALSE]
                        /\ i \notin HistoryIds
                        /\ selected_id' = i
                        /\ stack'[Len(stack')].kind = "add"
                        /\ stack'[Len(stack')].line = lines'[i]
                  /\ index' = index + 1
                  /\ Len(stack') = index + 2
                  /\ SubSeq(stack', 1, index + 1) = SubSeq(stack, 1, index + 1)
                  /\ next_cmd' = next_cmd + 1]_vars

\* a line is added while the history holds the id of a line that was deleted
C21_Witness ==
    /\ last.op = "add_line" /\ last.outcome = "ok"
    /\ Len(stack) = 3 /\ index = 2
    /\ stack[2].kind = "delete" /\ stack[3].kind = "add"
    /\ DOMAIN lines = {stack[3].line.id}
    /\ stack[3].line.id # stack[2].line.id
    /\ selected_id = stack[3].line.id

\* C22: every line of the guide set has 0 <= y <= the height of the image that
\* is loaded, whatever raw y add_line and move_line were given, in every snap
\* mode, and after undo and redo; without an image there is no line.
C22_LineRange ==
    \A i \in DOMAIN lines :
        /\ image # <<>>
        /\ 0 <= lines[i].y
        /\ lines[i].y <= Px(image[1].height)

\* with snap off, a line was added at the height of the image (only the raw y
\* of 2.5 pixel, beyond the image, gives it) next to a line at 0
C22_Witness ==
    /\ last.op = "add_line" /\ last.outcome = "ok"
    /\ snap_mode = "off"
    /\ lines[selected_id].y = Px(image[1].height)
    /\ \E i \in DOMAIN lines : lines[i].y = 0

\* the line command.do() works on is as do expects it: absent for AddLine,
\* present for DeleteLine, MoveLine and ToggleLock
ReadyToDo(cmd) ==
    CASE cmd.kind = "add"    -> cmd.line.id \notin DOMAIN lines
      [] cmd.kind = "delete" -> cmd.line.id \in DOMAIN lines
      [] cmd.kind = "move"   -> cmd.line_id \in DOMAIN lines
      [] cmd.kind = "lock"   -> cmd.line_id \in DOMAIN lines
      [] cmd.kind = "clear"  -> TRUE
\* and as undo expects it: present for AddLine, MoveLine and ToggleLock, absent
\* for DeleteLine
ReadyToUndo(cmd) ==
    CASE cmd.kind = "add"    -> cmd.line.id \in DOMAIN lines
      [] cmd.kind = "delete" -> cmd.line.id \notin DOMAIN lines
      [] cmd.kind = "move"   -> cmd.line_id \in DOMAIN lines
      [] cmd.kind = "lock"   -> cmd.line_id \in DOMAIN lines
      [] cmd.kind = "clear"  -> TRUE

\* C25: in every reachable state the command undo would replay (the one under
\* the cursor) and the command redo would replay (the one after it) find their
\* id in the guide set or out of it as they expect, so no replay takes an
\* "id not found" branch of _remove_line, _move_line or _set_locked.
C25_ReplayFindsId ==
    /\ can_undo(CS) => ReadyToUndo(stack[index + 1])
    /\ can_redo(CS) => ReadyToDo(stack[index + 2])

\* add, move and delete of one line, then two undos: the add is under the
\* cursor and the move is next to be redone
C25_Witness ==
    /\ last.op = "undo" /\ last.outcome = "ok"
    /\ Len(stack) = 3 /\ index = 0
    /\ stack[1].kind = "add" /\ stack[2].kind = "move" /\ stack[3].kind = "delete"
    /\ stack[1].line.id \in DOMAIN lines

\* clamp(apply_snap(raw)) for the image loaded
Normal(raw) == clamp(apply_snap(raw, snap_mode, grid_size), 0, Px(image[1].height))
\* nothing of the session changed and no command was made
Untouched ==
    /\ UNCHANGED Core
    /\ UNCHANGED Published
    /\ UNCHANGED <<next_cmd, next_id, discarded, snap_mode, grid_size>>
    /\ can_undo(CS') = can_undo(CS) /\ can_redo(CS') = can_redo(CS)

\* C26: add_line within 0.1 pixel of a line, move_line to within 0.1 pixel of
\* the line's own y or of another line, move_line and set_locked on an id that
\* is not in the guide set, set_locked to the value the line has, clear_lines on
\* an empty guide set and select_line of an id that is not in the guide set
\* push no command, keep the redoable commands, and leave the guide set and the
\* selection as they were: a step either leaves the session untouched or is
\* none of these calls.
C26_RejectedChangesNothing ==
    [][\/ Untouched
       \/ /\ last'.op = "add_line" =>
                \A raw \in RawYs :
                    ~(image # <<>> /\ Taken(None, Normal(raw)) /\ AddLine(raw))
          /\ last'.op = "move_line" =>
                \A line_id \in Ids, raw \in RawYs :
                    ~(/\ \/ line_id \notin DOMAIN lines
                         \/ /\ image # <<>>
                            /\ \/ Abs(Normal(raw) - lines[line_id].y) * 10 < Scale
                               \/ Taken(line_id, Normal(raw))
                      /\ MoveLine(line_id, raw))
          /\ last'.op = "set_locked" =>
                \A line_id \in Ids, locked \in BOOLEAN :
                    ~(/\ \/ line_id \notin DOMAIN lines
                         \/ lines[line_id].locked = locked
                      /\ SetLocked(line_id, locked))
          /\ last'.op = "clear_lines" => ~(DOMAIN lines = {} /\ ClearLines)
          /\ last'.op = "select_line" =>
                \A line_id \in Ids :
                    ~(line_id \notin DOMAIN lines /\ SelectLine(line_id))]_vars

\* set_locked to the value the line has, while a command can be redone
C26_Witness ==
    /\ last.op = "set_locked" /\ last.emitted = <<>>
    /\ DOMAIN lines # {}
    /\ can_redo(CS) /\ can_undo(CS)
    /\ stack[index + 2].kind = "lock"

\* C28 (as claimed): when a drag ends and the controller moves the line, the y
\* it commits is the y at which the canvas drew the line during the drag.
C28_PreviewMatchesCommit ==
    [][last'.op = "canvas_drag" =>
          \A line_id \in Ids, pointer \in GestureYs :
              (/\ line_id \in DOMAIN lines
               /\ next_cmd' = next_cmd + 1
               /\ CanvasDrag(line_id, pointer)) =>
                  lines'[line_id].y = Drawn(pointer)]_vars

\* one command of the given kind was appended after the cursor
PushedOne(kind) ==
    /\ index' = index + 1
    /\ Len(stack') = index + 2
    /\ SubSeq(stack', 1, index + 1) = SubSeq(stack, 1, index + 1)
    /\ stack'[index + 2].kind = kind
    /\ next_cmd' = next_cmd + 1

\* C31: a move_line(id, y) that is carried out changes the y of line id and
\* nothing else: its id and locked flag, every other line and the selection
\* are as before; a set_locked(id, v) that is carried out changes the locked
\* flag of line id and nothing else; each pushes one command.
C31_OneAttributeChanges ==
    [][/\ (last'.op = "move_line" /\ next_cmd' # next_cmd) =>
            \A line_id \in Ids, raw \in RawYs :
                \/ /\ line_id \in DOMAIN lines
                   /\ DOMAIN lines' = DOMAIN lines
                   /\ \A i \in DOMAIN lines \ {line_id} : lines'[i] = lines[i]
                   /\ lines'[line_id].id = lines[line_id].id
                   /\ lines'[line_id].locked = lines[line_id].locked
                   /\ lines'[line_id].y = Normal(raw)
                   /\ lines'[line_id].y # lines[line_id].y
                   /\ selected_id' = selected_id
                   /\ PushedOne("move")
                \/ ~MoveLine(line_id, raw)
       /\ (last'.op = "set_locked" /\ next_cmd' # next_cmd) =>
            \A line_id \in Ids, locked \in BOOLEAN :
                \/ /\ line_id \in DOMAIN lines
                   /\ DOMAIN lines' = DOMAIN lines
                   /\ \A i \in DOMAIN lines \ {line_id} : lines'[i] = lines[i]
                   /\ lines'[line_id].id = lines[line_id].id
                   /\ lines'[line_id].y = lines[line_id].y
                   /\ lines'[line_id].locked = locked
                   /\ lines'[line_id].locked # lines[line_id].locked
                   /\ selected_id' = selected_id
                   /\ PushedOne("lock")
                \/ ~SetLocked(line_id, locked)]_vars

\* a line that is not the selected one was moved while another line exists
C31_Witness ==
    /\ last.op = "move_line" /\ last.outcome = "ok"
    /\ Len(stack) = 3 /\ index = 2 /\ stack[3].kind = "move"
    /\ Cardinality(DOMAIN lines) = 2
    /\ selected_id # None /\ selected_id # stack[3].line_id
    /\ lines[stack[3].line_id].y = stack[3].new_y

\* the guide set lost line target and nothing else; the selection is none when
\* it was target and unchanged otherwise
Deleted(target) ==
    /\ DOMAIN lines' = DOMAIN lines \ {target}
    /\ \A i \in DOMAIN lines' : lines'[i] = lines[i]
    /\ selected_id' = IF selected_id = target THEN None ELSE selected_id
    /\ PushedOne("delete")
    /\ stack'[index + 2].line = lines[target]

\* C32: delete_line(id) with an id deletes that line and no other, and deletes
\* nothing when the id is not in the guide set, whatever is selected;
\* delete_line() deletes the selected line; the selection becomes none when the
\* line deleted was the selected one and is unchanged otherwise.
C32_DeleteTarget ==
    [][last'.op = "delete_line" =>
          \A line_id \in Ids \cup {None} :
              \/ IF line_id # None
                 THEN IF line_id \in DOMAIN lines
                      THEN Deleted(line_id)
                      ELSE UNCHANGED <<lines, selected_id, stack, index>>
                 ELSE IF selected_id # None
                      THEN Deleted(selected_id)
                      ELSE UNCHANGED <<lines, selected_id, stack, index>>
              \/ ~DeleteLine(line_id)]_vars

\* delete_line(id) removed a line that was not the selected one
C32_Witness ==
    /\ last.op = "delete_line" /\ last.outcome = "ok"
    /\ Len(stack) = 3 /\ index = 2 /\ stack[3].kind = "delete"
    /\ selected_id # None /\ selected_id # stack[3].line.id
    /\ DOMAIN lines = {selected_id}

\* C33: whatever integers set_grid_size was called with, zero and negatives
\* included, the controller's grid size is at least 1, so in grid mode
\* _normalize_y never gets from apply_snap the y it passed in by way of the
\* 'grid <= 0' branch: the result is the rounded multiple of the grid size.
C33_GridSizeFloor ==
    /\ grid_size >= 1
    /\ \A raw \in RawYs :
           apply_snap(raw, "grid", grid_size)
               = Px(PyRound(raw, Scale * grid_size) * grid_size)

\* set_grid_size was called with 0 or a negative while in grid mode with an
\* image open and a line placed
C33_Witness ==
    /\ last.op = "set_grid_size"
    /\ grid_size = 1
    /\ snap_mode = "grid"
    /\ image # <<>>
    /\ lines # <<>>

\* C35: whenever no image is loaded the guide set is empty, nothing is
\* selected and the command history is empty, so neither undo nor redo is
\* possible; undo and redo called in such a state leave image, guide set,
\* selection and history as they are, construct nothing and publish the undo
\* state (False, False).
C35_NoImageNoSession ==
    /\ [](image = <<>> =>
             /\ DOMAIN lines = {}
             /\ selected_id = None
             /\ stack = <<>> /\ index = -1
             /\ ~can_undo(CS) /\ ~can_redo(CS))
    /\ [][(last'.op \in {"undo", "redo"} /\ image = <<>>) =>
             /\ UNCHANGED Core
             /\ UNCHANGED <<next_id, next_cmd, lines_changed, selection_changed>>
             /\ last'.outcome = "noop"
             /\ undo_state_changed' = <<FALSE, FALSE>>]_vars

\* undo or redo was called with no image, after an image with lines and
\* commands had been closed
C35_Witness ==
    /\ image = <<>>
    /\ last.op \in {"undo", "redo"}
    /\ reset_cmd > 0 /\ reset_id > 0

\* C36: after an undo taken where can_undo held, a redo gives back the guide
\* set (ids, y, locked) and the stack and cursor of before the undo; after a
\* redo taken where can_redo held, an undo does the same; and neither the
\* undo nor the redo changes the number of commands in the history.
C36_UndoRedoRoundTrip ==
    [][/\ (last'.op = "undo" /\ can_undo(CS)) =>
             LET r == stack_redo(CS', G')
             IN  /\ can_redo(CS')
                 /\ r.g.lines = lines
                 /\ r.cs.index = index
                 /\ r.cs.stack = stack
                 /\ Len(stack') = Len(stack)
       /\ (last'.op = "redo" /\ can_redo(CS)) =>
             LET r == stack_undo(CS', G')
             IN  /\ can_undo(CS')
                 /\ r.g.lines = lines
                 /\ r.cs.index = index
                 /\ r.cs.stack = stack
                 /\ Len(stack') = Len(stack)]_vars

\* a history of an add, a move and a lock change, undone twice; the move has
\* been redone
C36_Witness ==
    /\ last.op = "redo" /\ last.outcome = "ok"
    /\ Len(stack) = 3
    /\ stack[1].kind = "add" /\ stack[2].kind = "move" /\ stack[3].kind = "lock"
    /\ index = 1

\* C37 (as claimed): once a drag of an unlocked line has ended and move_line
\* has returned, whether it moved the line, ignored the change or rejected it
\* as a duplicate, the canvas shows the line at the y it has in the guide set.
C37_ViewFollowsModel ==
    [][last'.op = "canvas_drag" =>
          \A line_id \in Ids, pointer \in GestureYs :
              (/\ line_id \in DOMAIN lines
               /\ ~lines[line_id].locked
               /\ CanvasDrag(line_id, pointer)) =>
                  ItemY(line_id, pointer, last'.emitted, lines_changed')
                      = lines'[line_id].y]_vars

\* C38: set_snap_mode and set_grid_size change the snap configuration and
\* nothing else: image, guide set (no line is snapped again), selection, stack
\* and cursor are as before, no command and no line is made, none of
\* lines_changed, selection_changed and undo_state_changed is emitted, and
\* each of the two leaves the other's setting alone.
C38_SnapConfigOnly ==
    [][/\ last'.op \in {"set_snap_mode", "set_grid_size"} =>
             /\ UNCHANGED Core
             /\ UNCHANGED <<next_id, next_cmd>>
             /\ UNCHANGED Published
             /\ can_undo(CS') = can_undo(CS) /\ can_redo(CS') = can_redo(CS)
             /\ \A k \in DOMAIN last'.emitted : last'.emitted[k] = "status_message"
       /\ last'.op = "set_snap_mode" => UNCHANGED grid_size
       /\ last'.op = "set_grid_size" => UNCHANGED snap_mode]_vars

\* the mode was set to grid, with grid size 10, while a line placed with snap
\* off lies at 0.05 pixel, off every grid, and undo is possible
C38_Witness ==
    /\ last.op = "set_snap_mode"
    /\ snap_mode = "grid" /\ grid_size = 10
    /\ \E i \in DOMAIN lines : lines[i].y = 1
    /\ can_undo(CS)

----------------------------------------------------------------------------
(* Properties of a session with exports, under SpecSession *)

\* C27 (as claimed): no two calls of export in a session target the same
\* subdirectory, and no file an export writes was written by an earlier one.
C27_FreshDirectory ==
    \A i, j \in DOMAIN exported :
        i < j =>
            /\ exported[i].dir # exported[j].dir
            /\ \A a \in DOMAIN exported[i].written, b \in DOMAIN exported[j].written :
                   exported[i].written[a] # exported[j].written[b]

\* C29: without an image add_line and export emit one status message, the
\* "open an image first" one, and nothing else; add_line adds no line and pushes
\* no command; export does not call export_image_segments and emits no
\* export_finished; close_image emits nothing.  None changes the session.
C29_NoImageFailsSoftly ==
    [][(image = <<>> /\ now' = now) =>
          /\ last'.op \in {"add_line", "export"} =>
                /\ last'.emitted = <<"status_message">>
                /\ last'.status = "status.open_first"
                /\ last'.saves = <<>> /\ last'.result = NoResult
                /\ exported' = exported
                /\ Untouched
          /\ last'.op = "close_image" =>
                /\ last'.emitted = <<>>
                /\ last'.status = NoStatus
                /\ exported' = exported
                /\ Untouched]_vars

\* export is called after the image it had exported was closed
C29_Witness ==
    /\ last.op = "export" /\ last.status = "status.open_first"
    /\ image = <<>>
    /\ exported # <<>>

\* C30: a call of export, whether every file was written, some saves failed or
\* the directory could not be made, leaves image, guide set, selection, snap
\* mode, grid size and command history (cursor, can_undo, can_redo) unchanged.
C30_ExportReadOnly ==
    [][(last'.op = "export" /\ now' = now) =>
          /\ UNCHANGED Core
          /\ UNCHANGED <<snap_mode, grid_size>>
          /\ can_undo(CS') = can_undo(CS) /\ can_redo(CS') = can_redo(CS)]_vars

\* an export of two segments whose first save failed, made with a line
\* selected and a history that can be undone and redone
C30_Witness ==
    /\ last.op = "export" /\ last.outcome = "errors"
    /\ Len(last.result.written) = 1 /\ Len(last.result.errors) = 1
    /\ selected_id # None
    /\ can_undo(CS) /\ can_redo(CS)

----------------------------------------------------------------------------
(* Properties of export_image_segments, under SpecExport *)

Exported == last.op = "export_image_segments"
DirOk == call.env.dir_ok
Height == call.args.image.height
Range(f) == {f[i] : i \in DOMAIN f}

\* the integer rows the lines passed round to, and those inside the image
Rows == {PyRound(call.args.lines[i].y, Scale) : i \in DOMAIN call.args.lines}
Inner == {b \in Rows : 0 < b /\ b < Height}
\* the i-th smallest element of S
Nth(S, i) == CHOOSE b \in S : Cardinality({x \in S : x < b}) = i - 1

ExpectedName(i) == <<"0", "0", Digits[i + 1], ".">>
                   \o _resolve_extension(call.args.export_format,
                                         call.args.original_suffix)

\* C6: lines whose rounded y are k distinct rows strictly inside the image,
\* the directory made and every save succeeding: k+1 segments are written,
\* [0,b_1), [b_1,b_2), ..., [b_k,H) in this order, as 001.<ext>, 002.<ext>, ...
C6_SegmentEnumeration ==
    (/\ Exported /\ DirOk
     /\ Rows \subseteq 1..(Height - 1)
     /\ 1..(Cardinality(Rows) + 1) \subseteq call.env.save_ok) =>
        LET k == Cardinality(Rows)
        IN  /\ Len(last.saves) = k + 1
            /\ Len(last.result.written) = k + 1
            /\ last.result.errors = <<>>
            /\ \A i \in 1..(k + 1) :
                 /\ last.saves[i].rect.y = IF i = 1 THEN 0 ELSE Nth(Rows, i - 1)
                 /\ last.saves[i].rect.y + last.saves[i].rect.height
                        = IF i = k + 1 THEN Height ELSE Nth(Rows, i)
                 /\ last.saves[i].path = call.args.output_dir \o <<"/">> \o ExpectedName(i)
                 /\ last.result.written[i] = last.saves[i].path

\* height 100, lines given as 70 and 30: three segments written
C6_Witness ==
    /\ Exported /\ DirOk
    /\ Height = 100
    /\ Len(call.args.lines) = 2
    /\ call.args.lines[1].y = Px(70) /\ call.args.lines[2].y = Px(30)
    /\ Len(last.result.written) = 3

SameRow == \E i, j \in DOMAIN call.args.lines :
               /\ i # j
               /\ PyRound(call.args.lines[i].y, Scale) = PyRound(call.args.lines[j].y, Scale)

\* C7: lines that round to the same row are one boundary: there is one segment
\* more than there are distinct rows inside the image, no save is of height 0
\* and no zero-height range at such a row is among the candidates (skipped).
C7_BoundaryCollapse ==
    (Exported /\ DirOk /\ SameRow) =>
        /\ Len(last.saves) = Cardinality(Inner) + 1
        /\ \A i \in DOMAIN last.saves : last.saves[i].rect.height > 0
        /\ \A b \in Inner : Str(b) \o <<"-">> \o Str(b) \notin Range(last.result.skipped)

\* height 100, lines at 30 and 30.05: two segments
C7_Witness ==
    /\ Exported /\ DirOk
    /\ Height = 100
    /\ Len(call.args.lines) = 2
    /\ call.args.lines[1].y = Px(30) /\ call.args.lines[2].y = Px(30) + 1
    /\ Len(last.saves) = 2

\* C8 (as claimed): a line at y = 0 or y = height gives a zero-height segment
\* at that edge, listed in ExportResult.skipped as "start-end" and not written.
C8_EdgeLineSkipped ==
    (Exported /\ DirOk) =>
        /\ (\E i \in DOMAIN call.args.lines : call.args.lines[i].y = 0)
              => <<"0", "-", "0">> \in Range(last.result.skipped)
        /\ (\E i \in DOMAIN call.args.lines : call.args.lines[i].y = Px(Height))
              => Str(Height) \o <<"-">> \o Str(Height) \in Range(last.result.skipped)
        /\ \A i \in DOMAIN last.saves : last.saves[i].rect.height > 0

Paths(saves) == [i \in DOMAIN saves |-> saves[i].path]
SaveOk(save) == save.ok
SaveFailed(save) == ~save.ok

\* C9: with the directory made, whatever saves fail, every valid segment is
\* saved once, in ascending order; each save adds one entry to written or to
\* errors, so len(written) + len(errors) is the number of valid segments.
C9_WriteFailureContinues ==
    (Exported /\ DirOk) =>
        LET n == Cardinality(Inner) + 1
        IN  /\ Len(last.saves) = n
            /\ \A i \in 1..n : last.saves[i].ok = (i \in call.env.save_ok)
            /\ \A i \in 1..(n - 1) :
                   last.saves[i].rect.y + last.saves[i].rect.height
                       = last.saves[i + 1].rect.y
            /\ \A i \in 1..n : last.saves[i].rect.height > 0
            /\ Len(last.result.written) + Len(last.result.errors) = n
            /\ last.result.written = Paths(SelectSeq(last.saves, SaveOk))
            /\ Paths(last.result.errors) = Paths(SelectSeq(last.saves, SaveFailed))

\* the first and the third save fail, the second succeeds
C9_Witness ==
    /\ Exported /\ DirOk
    /\ Len(last.saves) >= 3
    /\ ~last.saves[1].ok /\ last.saves[2].ok /\ ~last.saves[3].ok
    /\ Len(last.result.written) >= 1 /\ Len(last.result.errors) >= 2

\* C10: when the directory cannot be made the result holds one error, nothing
\* written, nothing skipped, and save was never called.
C10_DirFailureAborts ==
    (Exported /\ ~DirOk) =>
        /\ Len(last.result.errors) = 1
        /\ last.result.written = <<>>
        /\ last.result.skipped = <<>>
        /\ last.saves = <<>>

\* the directory fails for a call with lines whose saves would all succeed
C10_Witness ==
    /\ Exported /\ ~DirOk
    /\ Len(call.args.lines) >= 1
    /\ call.env.save_ok = 1..(MaxLines + 1)

\* the decimal digits of i, w of them, leading zeros included
Ten(k) == IF k = 0 THEN 1 ELSE 10 * (IF k = 1 THEN 1 ELSE IF k = 2 THEN 10
                                     ELSE IF k = 3 THEN 100 ELSE 1000)
Numbered(i, w) == [k \in 1..w |-> Digits[((i \div Ten(w - k)) % 10) + 1]]
DigitCount(n) == IF n < 10 THEN 1 ELSE IF n < 100 THEN 2 ELSE IF n < 1000 THEN 3
                 ELSE IF n < 10000 THEN 4 ELSE 5
Width(n) == IF DigitCount(n) > 3 THEN DigitCount(n) ELSE 3

\* C11: with the directory made, whatever saves fail, the i-th valid segment in
\* ascending y order is saved as i, zero-padded to max(3, digitCount(n)) digits
\* for n valid segments, plus "." and the resolved extension, and no two saves
\* of one export have the same path; and the name computed for segment i of n
\* is that one for n of up to five digits.
C11_FileNumbering ==
    /\ (Exported /\ DirOk) =>
        LET n == Cardinality(Inner) + 1
            ext == _resolve_extension(call.args.export_format, call.args.original_suffix)
        IN  /\ Len(last.saves) = n
            /\ \A i \in 1..n :
                   last.saves[i].path = call.args.output_dir \o <<"/">>
                                            \o Numbered(i, Width(n)) \o <<".">> \o ext
            /\ \A i \in 1..(n - 1) : last.saves[i].rect.y < last.saves[i + 1].rect.y
            /\ \A i, j \in 1..n : i # j => last.saves[i].path # last.saves[j].path
    /\ last.op = "pad_width" =>
        /\ last.result.pad_width = Width(call.count)
        /\ last.result.filename
               = Numbered(call.index, Width(call.count)) \o <<".">>
                     \o _resolve_extension(call.export_format, call.original_suffix)

\* three segments, the first two saves failing and the third succeeding: the one
\* file written is 003
C11_Witness ==
    /\ Exported /\ DirOk
    /\ Len(last.saves) = 3
    /\ ~last.saves[1].ok /\ ~last.saves[2].ok /\ last.saves[3].ok
    /\ last.result.written = <<OutputDir \o <<"/", "0", "0", "3", ".", "p", "n", "g">>>>

\* the part of a path after its last "."
AfterLastDot(s) ==
    IF \E i \in DOMAIN s : s[i] = "."
    THEN LET k == CHOOSE i \in DOMAIN s : s[i] = "." /\ \A j \in DOMAIN s : s[j] = "." => j <= i
         IN  SubSeq(s, k + 1, Len(s))
    ELSE <<>>

\* the extension of the original file, lowercased and without its dot, for the
\* suffixes the calls are made with
KeptExtension ==
    CASE call.args.original_suffix = <<>> -> <<>>
      [] call.args.original_suffix = <<".", "j", "p", "g">> -> <<"j", "p", "g">>
      [] call.args.original_suffix = <<".", "J", "P", "G">> -> <<"j", "p", "g">>
      [] call.args.original_suffix = <<".", "j", "p", "e", "g">> -> <<"j", "p", "e", "g">>
      [] call.args.original_suffix = <<".", "p", "n", "g">> -> <<"p", "n", "g">>
      [] call.args.original_suffix = <<".", "P", "N", "G">> -> <<"p", "n", "g">>
      [] call.args.original_suffix = <<".", "B", "m", "p">> -> <<"b", "m", "p">>
      [] call.args.original_suffix = <<".", "g", "i", "f">> -> <<"g", "i", "f">>

ExpectedExtension ==
    CASE call.args.export_format = "png" -> <<"p", "n", "g">>
      [] call.args.export_format = "jpeg" -> <<"j", "p", "g">>
      [] call.args.export_format = "keep" ->
            IF KeptExtension = <<>> THEN <<"p", "n", "g">> ELSE KeptExtension

\* C23: the extension of the path of every save, written or failed, is "png" for
\* PNG, "jpg" for JPEG, and for KEEP the extension of the original file in lower
\* case without its dot, or "png" when the original has none; so it is the same
\* for all segments of one export.
C23_ExtensionResolution ==
    (Exported /\ DirOk) =>
        /\ \A i \in DOMAIN last.saves : AfterLastDot(last.saves[i].path) = ExpectedExtension
        /\ \A i \in DOMAIN last.result.written :
               AfterLastDot(last.result.written[i]) = ExpectedExtension
        /\ \A i, j \in DOMAIN last.saves :
               AfterLastDot(last.saves[i].path) = AfterLastDot(last.saves[j].path)

\* KEEP of a file named .Bmp: three segments written as 001.bmp, 002.bmp, 003.bmp
C23_Witness ==
    /\ Exported /\ DirOk
    /\ call.args.export_format = "keep"
    /\ call.args.original_suffix = <<".", "B", "m", "p">>
    /\ Len(last.result.written) = 3
    /\ \A i \in 1..3 : AfterLastDot(last.result.written[i]) = <<"b", "m", "p">>

\* C24 (as claimed): with KEEP, save is given JPEG for jpg and jpeg, PNG for png
\* and for a file without extension, the encoder named by any other extension
\* that has one, and PNG for an extension that has none; so in that last case
\* the segments are written and no save is reported as an error.
C24_EncoderResolution ==
    (Exported /\ DirOk /\ call.args.export_format = "keep") =>
        LET upper == [i \in DOMAIN KeptExtension |->
                         MapChar(KeptExtension[i], LowerChars, UpperChars)]
            expected == IF KeptExtension \in {<<"j", "p", "g">>, <<"j", "p", "e", "g">>}
                        THEN <<"J", "P", "E", "G">>
                        ELSE IF KeptExtension \in {<<>>, <<"p", "n", "g">>}
                        THEN <<"P", "N", "G">>
                        ELSE IF upper \in QtWriters THEN upper
                        ELSE <<"P", "N", "G">>
        IN  /\ \A i \in DOMAIN last.saves : last.saves[i].format = expected
            /\ upper \notin QtWriters /\ KeptExtension # <<>> =>
                   /\ last.result.errors = <<>>
                   /\ Len(last.result.written) = Len(last.saves)

\* C34: for every image height and every lines passed (any order, any y, any
\* number rounding to one row) the boundaries after the clamp-and-dedupe loop
\* start at 0, end at the height and strictly increase; so the candidate
\* segments are at least one, each of positive height, and every row of the
\* image lies in exactly one of them; when the directory is made the crops
\* saved are these candidates, in order.
C34_SegmentsPartition ==
    call.op = "export_image_segments" =>
        LET clean == clean_boundaries(Height, boundaries(Height, call.args.lines), <<>>)
            candidates == segment_candidates(clean)
        IN  /\ clean[1] = 0
            /\ clean[Len(clean)] = Height
            /\ \A i \in 1..(Len(clean) - 1) : clean[i] < clean[i + 1]
            /\ Len(candidates) >= 1
            /\ \A i \in DOMAIN candidates : candidates[i].end - candidates[i].start > 0
            /\ \A row \in 0..(Height - 1) :
                   Cardinality({i \in DOMAIN candidates :
                                   candidates[i].start <= row /\ row < candidates[i].end}) = 1
            /\ (Exported /\ DirOk) =>
                   /\ Len(last.saves) = Len(candidates)
                   /\ \A i \in DOMAIN candidates :
                          /\ last.saves[i].rect.y = candidates[i].start
                          /\ last.saves[i].rect.height
                                 = candidates[i].end - candidates[i].start

\* an image of two rows exported with lines given as 3, -1 and 1.5 pixel: the
\* rows they round to are 3, -1 and 2, and the one segment is the whole image
C34_Witness ==
    /\ Exported /\ DirOk
    /\ Height = 2
    /\ Len(call.args.lines) = 3
    /\ call.args.lines[1].y = 60
    /\ call.args.lines[2].y = -20
    /\ call.args.lines[3].y = 30
    /\ Len(last.saves) = 1
    /\ last.saves[1].rect.y = 0
    /\ last.saves[1].rect.height = 2

----------------------------------------------------------------------------
(* Properties of apply_snap, under SpecSnap *)

\* C14: apply_snap(y, GRID, g) with g > 0 is an integer multiple of g;
\* apply_snap(y, PIXEL, _) is an integer; apply_snap(y, OFF, _) is y; and
\* apply_snap(y, GRID, g) with g <= 0 is y.
C14_SnapResults ==
    last.op = "apply_snap" =>
        /\ (call.snap_mode = "grid" /\ call.grid_size > 0)
               => last.result % (Scale * call.grid_size) = 0
        /\ call.snap_mode = "pixel" => last.result % Scale = 0
        /\ call.snap_mode = "off" => last.result = call.y
        /\ (call.snap_mode = "grid" /\ call.grid_size <= 0) => last.result = call.y

\* 4.5 pixel on a grid of 3: 4.5 / 3 = 1.5 rounds to 2, so 6 pixel
C14_Witness ==
    /\ last.op = "apply_snap"
    /\ call.snap_mode = "grid" /\ call.grid_size = 3 /\ call.y = 90
    /\ last.result = Px(6)

====
